---- MODULE Spec2Model ----
(***************************************************************************)
(* Rendezvous and session lifecycle of the AnyOne stranger-chat clients.   *)
(* Every client is a React component that talks to a PeerJS broker.  The   *)
(* model keeps, per client, the React state, the refs, the closures that   *)
(* are still waiting for an event (with the state values they captured at  *)
(* the render that created them) and the PeerJS objects it has created.    *)
(* Each action is one JavaScript callback, run to completion.              *)
(***************************************************************************)
EXTENDS Integers, Sequences, FiniteSets, TLC

\* ------------------------------------------------------------ bounds
\* Slots in the rotation (MAX_SLOTS of the source, scaled down).
MAX_SLOTS == 2
\* Seconds of the overall countdown (MATCH_TIMEOUT of the source, scaled down).
MATCH_TIMEOUT == 2
\* Peer objects one client may create in a behaviour.
MaxPeers == 4
\* handleStart invocations of one client in a behaviour.
MaxRuns == 1
\* Seconds of a session before the video button works (60 in the source,
\* scaled down); elapsedTime is not counted beyond it.
VIDEO_GATE == 1
\* Clicks of the video button that pass the gate in a behaviour, all clients
\* together.
MaxVideo == 2
\* Clicks of the call button of the dialer, per client.
MaxDial == 1

Clients == {1, 2, 3}
Duo == {1, 2}
Langs == {"en"}
Null == "null"
NoRef == <<0, 0, "-">>
Rand == "random-id"

VARIABLES
  appState,        \* useState<AppState>
  selectedLang,    \* useState<string | null>
  matchTimer,      \* useState(MATCH_TIMEOUT)
  error,           \* useState<string | null>, as a cause tag
  isVideoActive,   \* useState(false)
  peerRef,         \* peerRef.current: index into peers[c], 0 for null
  callRef,         \* callRef.current: <<caller, index, side>> or NoRef
  dataConnRef,     \* dataConnRef.current: <<connector, index, side>> or NoRef
  localStreamRef,  \* localStreamRef.current: Null or "live"
  isBusy,          \* isBusy.current
  scanTimerRef,    \* scanTimerRef.current: the chain whose timer it holds, 0 for null
  matchIv,         \* the interval held in timersRef.current.match is running
  sessionIv,       \* the interval held in timersRef.current.session is running
  leakedIv,        \* running session intervals timersRef.current no longer holds
  elapsedTime,     \* useState(0), capped at the video gate
  liveStreams,     \* MediaStreams obtained from getUserMedia whose tracks run
  videoPending,    \* getUserMedia promises of the video button not settled yet
  videoAsked,      \* clicks of the video button that passed its gate
  videoSent,       \* SIGNAL_VIDEO_ENABLE messages the client has sent, capped
  toast,           \* useState<string | null>: the seconds the gate toast names, -1 for none
  incomingCall,    \* useState<any>(null): the ringing call <<caller, index>> or NoRef
  ringIv,          \* the interval held in timersRef.current.ring is running
  ringLeak,        \* running ring intervals timersRef.current no longer holds
  sessionSet,      \* timersRef.current.session holds an interval id, running or cleared
  pending,         \* getUserMedia promises not settled yet, with what their closures captured
  peerErr,         \* 'peer-unavailable' errors on their way to the Peer's 'error' handler
  videoTracks,     \* local video tracks that are running
  dials,           \* clicks of the call button of the dialer
  runs,            \* per client, the matching chains started by handleStart
  peers,           \* per client, the Peer objects it created
  conns,           \* per client, the DataConnections it initiated
  calls            \* per client, the MediaConnections it initiated

vars == <<appState, selectedLang, matchTimer, error, isVideoActive, peerRef,
          callRef, dataConnRef, localStreamRef, isBusy, scanTimerRef, matchIv,
          sessionIv, leakedIv, elapsedTime, liveStreams, videoPending, videoAsked,
          videoSent, toast, incomingCall, ringIv, ringLeak, sessionSet, pending, peerErr,
          videoTracks, dials, runs, peers, conns, calls>>

\* The whole state as one record, so that a handler's calls compose.
W ==
  [appState |-> appState, selectedLang |-> selectedLang, matchTimer |-> matchTimer,
   error |-> error, isVideoActive |-> isVideoActive, peerRef |-> peerRef,
   callRef |-> callRef, dataConnRef |-> dataConnRef, localStreamRef |-> localStreamRef,
   isBusy |-> isBusy, scanTimerRef |-> scanTimerRef, matchIv |-> matchIv, sessionIv |-> sessionIv,
   leakedIv |-> leakedIv, elapsedTime |-> elapsedTime, liveStreams |-> liveStreams,
   videoPending |-> videoPending, videoAsked |-> videoAsked, videoSent |-> videoSent,
   toast |-> toast,
   incomingCall |-> incomingCall, ringIv |-> ringIv, ringLeak |-> ringLeak,
   sessionSet |-> sessionSet, pending |-> pending, peerErr |-> peerErr,
   videoTracks |-> videoTracks, dials |-> dials,
   runs |-> runs, peers |-> peers, conns |-> conns, calls |-> calls]

\* Objects nothing can happen to any more are kept as one fixed record each: a
\* chain that has returned, a connection or call that is closed with no event
\* left to deliver, a destroyed Peer.
OverRun == [pc |-> "over", slot |-> 0, peer |-> 0, conn |-> 0, lang |-> Null, app |-> "IDLE"]
DeadPeer == [name |-> "-", st |-> "destroyed"]
DeadConn ==
  [gp |-> 0, hc |-> 0, hp |-> 0, name |-> "-", st |-> "closed", hmode |-> "none",
   gatt |-> FALSE, busyMsg |-> FALSE, gVid |-> 0, hVid |-> 0,
   gQ |-> <<>>, hQ |-> <<>>, gClose |-> FALSE, hClose |-> FALSE]
DeadCall ==
  [gp |-> 0, hc |-> 0, hp |-> 0, stage |-> "closed", closed |-> TRUE, vid |-> FALSE,
   gStream |-> FALSE, hStream |-> FALSE, gClose |-> FALSE, hClose |-> FALSE]

NormRun(r) == IF r.pc \in {"dead", "done", "over"} THEN OverRun ELSE r
NormPeer(p) == IF p.st = "destroyed" THEN DeadPeer ELSE p
NormConn(cn) ==
  IF \/ cn.st \in {"lost", "closed"}
     \/ /\ cn.st \in {"closedG", "closedH"}
        /\ ~cn.gClose /\ ~cn.hClose /\ ~cn.busyMsg
        /\ cn.gVid = 0 /\ cn.hVid = 0
        /\ cn.gQ = <<>> /\ cn.hQ = <<>>
    THEN DeadConn ELSE cn
NormCall(cl) ==
  IF \/ cl.stage \in {"lost", "closed"}
     \/ cl.closed /\ ~cl.gClose /\ ~cl.hClose /\ cl.stage # "hmic"
    THEN DeadCall ELSE cl

Norm(w) ==
  [w EXCEPT
     !.runs = [c \in Clients |-> [k \in 1..Len(w.runs[c]) |-> NormRun(w.runs[c][k])]],
     !.peers = [c \in Clients |-> [k \in 1..Len(w.peers[c]) |-> NormPeer(w.peers[c][k])]],
     !.conns = [c \in Clients |-> [k \in 1..Len(w.conns[c]) |-> NormConn(w.conns[c][k])]],
     !.calls = [c \in Clients |-> [k \in 1..Len(w.calls[c]) |-> NormCall(w.calls[c][k])]]]

Commit(v) ==
  \E w \in {Norm(v)} :
  /\ appState' = w.appState
  /\ selectedLang' = w.selectedLang
  /\ matchTimer' = w.matchTimer
  /\ error' = w.error
  /\ isVideoActive' = w.isVideoActive
  /\ peerRef' = w.peerRef
  /\ callRef' = w.callRef
  /\ dataConnRef' = w.dataConnRef
  /\ localStreamRef' = w.localStreamRef
  /\ isBusy' = w.isBusy
  /\ scanTimerRef' = w.scanTimerRef
  /\ matchIv' = w.matchIv
  /\ sessionIv' = w.sessionIv
  /\ leakedIv' = w.leakedIv
  /\ elapsedTime' = w.elapsedTime
  /\ liveStreams' = w.liveStreams
  /\ videoPending' = w.videoPending
  /\ videoAsked' = w.videoAsked
  /\ videoSent' = w.videoSent
  /\ toast' = w.toast
  /\ incomingCall' = w.incomingCall
  /\ ringIv' = w.ringIv
  /\ ringLeak' = w.ringLeak
  /\ sessionSet' = w.sessionSet
  /\ pending' = w.pending
  /\ peerErr' = w.peerErr
  /\ videoTracks' = w.videoTracks
  /\ dials' = w.dials
  /\ runs' = w.runs
  /\ peers' = w.peers
  /\ conns' = w.conns
  /\ calls' = w.calls

\* Every client is Idle with nothing pending.  selectedLang is null after a
\* fresh load and keeps the language of an earlier run that was cancelled
\* (cleanup does not reset it): both are states of the Idle screen.
InitOf(CS) ==
  /\ appState = [c \in Clients |-> "IDLE"]
  /\ selectedLang \in {f \in [Clients -> Langs \cup {Null}] :
                        \A c \in Clients \ CS : f[c] = Null}
  /\ matchTimer = [c \in Clients |-> MATCH_TIMEOUT]
  /\ error = [c \in Clients |-> Null]
  /\ isVideoActive = [c \in Clients |-> FALSE]
  /\ peerRef = [c \in Clients |-> 0]
  /\ callRef = [c \in Clients |-> NoRef]
  /\ dataConnRef = [c \in Clients |-> NoRef]
  /\ localStreamRef = [c \in Clients |-> Null]
  /\ isBusy = [c \in Clients |-> FALSE]
  /\ scanTimerRef = [c \in Clients |-> 0]
  /\ matchIv = [c \in Clients |-> FALSE]
  /\ sessionIv = [c \in Clients |-> FALSE]
  /\ leakedIv = [c \in Clients |-> 0]
  /\ elapsedTime = [c \in Clients |-> 0]
  /\ liveStreams = [c \in Clients |-> 0]
  /\ videoPending = [c \in Clients |-> 0]
  /\ videoAsked = [c \in Clients |-> 0]
  /\ videoSent = [c \in Clients |-> 0]
  /\ toast = [c \in Clients |-> -1]
  /\ incomingCall = [c \in Clients |-> NoRef]
  /\ ringIv = [c \in Clients |-> FALSE]
  /\ ringLeak = [c \in Clients |-> 0]
  /\ sessionSet = [c \in Clients |-> FALSE]
  /\ pending = [c \in Clients |-> <<>>]
  /\ peerErr = [c \in Clients |-> 0]
  /\ videoTracks = [c \in Clients |-> 0]
  /\ dials = [c \in Clients |-> 0]
  /\ runs = [c \in Clients |-> <<>>]
  /\ peers = [c \in Clients |-> <<>>]
  /\ conns = [c \in Clients |-> <<>>]
  /\ calls = [c \in Clients |-> <<>>]

\* ------------------------------------------------------------ PeerJS broker
\* The open Peer registered under a name, as a set of <<client, index>>.
Holder(w, name) ==
  {p \in {<<c, i>> : c \in Clients, i \in 1..MaxPeers} :
     /\ p[2] <= Len(w.peers[p[1]])
     /\ w.peers[p[1]][p[2]].name = name
     /\ w.peers[p[1]][p[2]].st = "open"}

Registered(w, name) == Holder(w, name) # {}

PeerLive(w, c, i) == i # 0 /\ w.peers[c][i].st = "open"

\* new Peer(name): the object exists at once, its registration is pending.
NewPeer(w, c, name) ==
  [w EXCEPT !.peers[c] = Append(@, [name |-> name, st |-> "pending"])]

ConnClosed(cn) == cn.st \in {"closedG", "closedH", "closed"}

\* One end closes a DataConnection: the other end is told if the channel was
\* open, after the data sent to it before; the closing end hears nothing more.
ConnCloseBy(cn, side) ==
  IF cn.st = "open"
    THEN [cn EXCEPT !.st = IF side = "g" THEN "closedG" ELSE "closedH",
                    !.gClose = (side = "h"),
                    !.hClose = (side = "g"),
                    !.busyMsg = (@ /\ side = "h"),
                    !.gVid = IF side = "g" THEN 0 ELSE @,
                    !.hVid = IF side = "h" THEN 0 ELSE @,
                    !.gQ = IF side = "g" THEN <<>> ELSE @,
                    !.hQ = IF side = "h" THEN <<>> ELSE @]
    ELSE IF ConnClosed(cn)
      THEN [cn EXCEPT !.gVid = IF side = "g" THEN 0 ELSE @,
                      !.hVid = IF side = "h" THEN 0 ELSE @,
                      !.gQ = IF side = "g" THEN <<>> ELSE @,
                      !.hQ = IF side = "h" THEN <<>> ELSE @,
                      !.gClose = (@ /\ side # "g"),
                      !.hClose = (@ /\ side # "h")]
    ELSE [cn EXCEPT !.st = IF side = "g" THEN "closedG" ELSE "closedH"]

CallOpen(cl) == ~cl.closed /\ cl.stage \in {"answered", "busy"}

\* One end closes a MediaConnection: the other end is told if it was answered.
CallCloseBy(cl, side) ==
  IF cl.closed THEN cl
  ELSE [cl EXCEPT !.closed = TRUE,
                  !.gClose = (CallOpen(cl) /\ side = "h"),
                  !.hClose = (CallOpen(cl) /\ side = "g"),
                  !.gStream = FALSE,
                  !.hStream = FALSE]

CloseConnRef(w, ref) ==
  IF ref = NoRef THEN w
  ELSE [w EXCEPT !.conns[ref[1]][ref[2]] = ConnCloseBy(@, ref[3])]

CloseCallRef(w, ref) ==
  IF ref = NoRef THEN w
  ELSE [w EXCEPT !.calls[ref[1]][ref[2]] = CallCloseBy(@, ref[3])]

\* peer.destroy(): the name is released and every connection of the Peer closes.
DestroyPeer(w, c, i) ==
  IF i = 0 \/ w.peers[c][i].st = "destroyed" THEN w
  ELSE [w EXCEPT
          !.peers[c][i] = DeadPeer,
          !.conns = [g \in Clients |-> [k \in 1..Len(w.conns[g]) |->
                       LET cn == w.conns[g][k] IN
                       IF g = c /\ cn.gp = i THEN ConnCloseBy(cn, "g")
                       ELSE IF cn.hc = c /\ cn.hp = i THEN ConnCloseBy(cn, "h")
                       ELSE cn]],
          !.calls = [g \in Clients |-> [k \in 1..Len(w.calls[g]) |->
                       LET cl == w.calls[g][k] IN
                       IF g = c /\ cl.gp = i THEN CallCloseBy(cl, "g")
                       ELSE IF cl.hc = c /\ cl.hp = i THEN CallCloseBy(cl, "h")
                       ELSE cl]]]

\* peer.connect(name): the offer travels to whoever holds the name now.
NewConn(w, c, i, name) ==
  LET h == Holder(w, name)
      t == IF h = {} THEN <<0, 0>> ELSE CHOOSE p \in h : TRUE
  IN [w EXCEPT !.conns[c] = Append(@,
        [gp |-> i, hc |-> t[1], hp |-> t[2], name |-> name,
         st |-> IF h = {} \/ ~PeerLive(w, c, i) THEN "lost" ELSE "pend",
         hmode |-> "none", gatt |-> FALSE, busyMsg |-> FALSE,
         gVid |-> 0, hVid |-> 0, gQ |-> <<>>, hQ |-> <<>>,
         gClose |-> FALSE, hClose |-> FALSE])]

\* peer.call(name, stream): the offer travels to whoever holds the name now.
NewCall(w, c, i, name) ==
  LET h == Holder(w, name)
      t == IF h = {} THEN <<0, 0>> ELSE CHOOSE p \in h : TRUE
  IN [w EXCEPT !.calls[c] = Append(@,
        [gp |-> i, hc |-> t[1], hp |-> t[2],
         stage |-> IF h = {} \/ ~PeerLive(w, c, i) THEN "lost" ELSE "offer",
         closed |-> FALSE, vid |-> FALSE, gStream |-> FALSE, hStream |-> FALSE,
         gClose |-> FALSE, hClose |-> FALSE])]


\* ------------------------------------------------------------ run records
\* A chain started by handleStart: where it waits (pc), the slot it is on, the
\* Peer and DataConnection it created last, and the selectedLang and appState
\* of the render whose closures it runs.
NewRun(w, c, pc0) ==
  [pc |-> pc0, slot |-> 1, peer |-> 0, conn |-> 0,
   lang |-> w.selectedLang[c], app |-> w.appState[c]]

CanAlloc(w, c) == Len(w.peers[c]) < MaxPeers

\* localStreamRef.current = stream, for a stream getUserMedia has just returned:
\* the stream the ref held before keeps its tracks running.
HoldNewStream(w, c) ==
  [w EXCEPT !.localStreamRef[c] = "live", !.liveStreams[c] = @ + 1]

\* localStreamRef.current.getTracks().forEach(t => t.stop()) when the ref is set.
StopHeldStream(w, c) ==
  IF w.localStreamRef[c] = Null THEN w
  ELSE [w EXCEPT !.liveStreams[c] = @ - 1,
                 !.videoTracks[c] = IF w.localStreamRef[c] = "av" THEN @ - 1 ELSE @]

CanStart(w, c, n) == Len(w.runs[c]) < n

\* ============================================================ variant v25
\* src/unnamed/part_001: probe the slot as Guest first, host it if nobody answers.

\* The name startMatching probes.
V25_startMatching_roomId(lang, slot) ==
  "anyone-v25-" \o lang \o "-" \o ToString(slot)

\* A registration name that carries the "-slot-" infix of the older builds.
V25_becomeHost_roomId_Infix(lang, slot) ==
  "anyone-v25-" \o lang \o "-slot-" \o ToString(slot)

\* The name becomeHost registers.
V25_becomeHost_roomId(lang, slot) ==
  "anyone-v25-" \o lang \o "-" \o ToString(slot)

V25_cleanup(w, c) ==
  LET w1 == [w EXCEPT !.isBusy[c] = FALSE, !.matchIv[c] = FALSE,
                      !.sessionIv[c] = FALSE]
      w2 == CloseCallRef(w1, w1.callRef[c])
      w3 == CloseConnRef(w2, w2.dataConnRef[c])
      w4 == DestroyPeer(StopHeldStream(w3, c), c, w3.peerRef[c])
  IN [w4 EXCEPT !.peerRef[c] = 0, !.callRef[c] = NoRef,
                !.dataConnRef[c] = NoRef, !.localStreamRef[c] = Null,
                !.appState[c] = "IDLE", !.elapsedTime[c] = 0,
                !.matchTimer[c] = MATCH_TIMEOUT,
                !.isVideoActive[c] = FALSE]

\* The interval it creates replaces the one timersRef.current.session held,
\* which nothing clears.
V25_onConnected(w, c) ==
  [w EXCEPT !.isBusy[c] = TRUE, !.appState[c] = "CONNECTED",
            !.matchIv[c] = FALSE, !.sessionIv[c] = TRUE,
            !.leakedIv[c] = IF w.sessionIv[c] THEN @ + 1 ELSE @]

\* setupDataConnection(conn) on the given side of connection <<g, k>>.
V25_setupDataConnection(w, c, g, k, side) ==
  [w EXCEPT !.dataConnRef[c] = <<g, k, side>>,
            !.conns[g][k] = IF side = "g" THEN [@ EXCEPT !.gatt = TRUE]
                            ELSE [@ EXCEPT !.hmode = "attached"]]

\* setupCall(call) on the given side of call <<g, k>>.
V25_setupCall(w, c, g, k, side) ==
  [w EXCEPT !.callRef[c] = <<g, k, side>>]

\* becomeHost(slot), called from the chain r of client c.
V25_becomeHost(w, c, r, slot) ==
  LET run == w.runs[c][r] IN
  IF run.app = "CONNECTED" \/ run.lang = Null
    THEN [w EXCEPT !.runs[c][r].pc = "dead"]
    ELSE LET w1 == NewPeer(w, c, V25_becomeHost_roomId(run.lang, slot))
             i == Len(w1.peers[c])
         IN [w1 EXCEPT !.peerRef[c] = i,
                       !.runs[c][r] = [@ EXCEPT !.pc = "hopen", !.slot = slot,
                                                !.peer = i, !.conn = 0]]

\* startMatching(slot), called from the chain r of client c.
V25_startMatching(w, c, r, slot) ==
  LET run == w.runs[c][r] IN
  IF run.app = "CONNECTED" \/ run.lang = Null
    THEN [w EXCEPT !.runs[c][r].pc = "dead"]
  ELSE IF slot > MAX_SLOTS
    THEN [w EXCEPT !.runs[c][r] = [@ EXCEPT !.pc = "delay", !.slot = 1]]
  ELSE LET w1 == NewPeer(w, c, Rand)
           i == Len(w1.peers[c])
       IN [w1 EXCEPT !.peerRef[c] = i,
                     !.runs[c][r] = [@ EXCEPT !.pc = "gopen", !.slot = slot,
                                              !.peer = i, !.conn = 0]]

\* handleStart(langCode): the button of the Idle screen passes any language,
\* the retry button of the Error screen passes selectedLang.
V25_handleStart(c, l, n) ==
  /\ appState[c] \in {"IDLE", "ERROR"}
  /\ appState[c] = "ERROR" => l = selectedLang[c]
  /\ CanStart(W, c, n)
  /\ Commit([W EXCEPT !.selectedLang[c] = l, !.appState[c] = "MATCHING",
                      !.matchTimer[c] = MATCH_TIMEOUT, !.matchIv[c] = TRUE,
                      !.runs[c] = Append(@, NewRun(W, c, "delay"))])

\* One tick of the interval of handleStart.
V25_matchTick(c) ==
  /\ matchIv[c]
  /\ IF matchTimer[c] <= 1
       THEN Commit([V25_cleanup(W, c) EXCEPT !.appState[c] = "ERROR",
                                             !.error[c] = "NoPartner"])
       ELSE Commit([W EXCEPT !.matchTimer[c] = @ - 1])

\* The setTimeout of handleStart, or of startMatching past the last slot, fires.
V25_startTimer(c, r) ==
  /\ r \in 1..Len(runs[c])
  /\ runs[c][r].pc = "delay"
  /\ CanAlloc(W, c)
  /\ Commit(V25_startMatching(W, c, r, runs[c][r].slot))

\* guestPeer 'open': connect to the slot name and arm the 2.5 s timeout.
V25_guestOpen(c, r) ==
  /\ r \in 1..Len(runs[c])
  /\ runs[c][r].pc = "gopen"
  /\ peers[c][runs[c][r].peer].st = "pending"
  /\ LET run == runs[c][r]
         w1 == [W EXCEPT !.peers[c][run.peer].st = "open"]
         w2 == NewConn(w1, c, run.peer, V25_startMatching_roomId(run.lang, run.slot))
     IN Commit([w2 EXCEPT !.runs[c][r] = [@ EXCEPT !.pc = "probe",
                                                   !.conn = Len(w2.conns[c])]])

\* connectionTimeout fires: nobody answered on the slot.
V25_connectionTimeout(c, r) ==
  /\ r \in 1..Len(runs[c])
  /\ runs[c][r].pc = "probe"
  /\ CanAlloc(W, c)
  /\ Commit(V25_becomeHost(DestroyPeer(W, c, runs[c][r].peer), c, r, runs[c][r].slot))

\* conn 'open' at the Guest: a Host answered, ask for the microphone.
V25_guestConnOpen(c, r) ==
  /\ r \in 1..Len(runs[c])
  /\ runs[c][r].pc = "probe"
  /\ conns[c][runs[c][r].conn].st = "open"
  /\ Commit([W EXCEPT !.runs[c][r].pc = "gmic"])

\* getUserMedia resolves at the Guest: attach the connection and place the call.
\* Calling from a destroyed Peer yields no call object and the catch block runs.
V25_guestMicGranted(c, r) ==
  /\ r \in 1..Len(runs[c])
  /\ runs[c][r].pc = "gmic"
  /\ LET run == runs[c][r]
         w1 == [HoldNewStream(W, c) EXCEPT !.runs[c][r].pc = "done"]
         w2 == V25_setupDataConnection(w1, c, c, run.conn, "g")
         w3 == NewCall(w2, c, run.peer, V25_startMatching_roomId(run.lang, run.slot))
     IN IF PeerLive(W, c, run.peer)
          THEN Commit(V25_setupCall(w3, c, c, Len(w3.calls[c]), "g"))
          ELSE Commit([V25_cleanup(w2, c) EXCEPT !.error[c] = "Mic"])

\* getUserMedia rejects at the Guest.
V25_guestMicDenied(c, r) ==
  /\ r \in 1..Len(runs[c])
  /\ runs[c][r].pc = "gmic"
  /\ Commit([V25_cleanup([W EXCEPT !.runs[c][r].pc = "done"], c)
               EXCEPT !.error[c] = "Mic"])

\* host 'open': the broker registered the name; arm the 10 s host-wait timer.
V25_hostOpen(c, r) ==
  /\ r \in 1..Len(runs[c])
  /\ runs[c][r].pc = "hopen"
  /\ peers[c][runs[c][r].peer].st = "pending"
  /\ ~Registered(W, peers[c][runs[c][r].peer].name)
  /\ Commit([W EXCEPT !.peers[c][runs[c][r].peer].st = "open",
                      !.runs[c][r].pc = "hostwait"])

\* host 'error': unavailable-id when the name is held, or any other broker error.
V25_hostError(c, r, type) ==
  /\ r \in 1..Len(runs[c])
  /\ runs[c][r].pc = "hopen"
  /\ peers[c][runs[c][r].peer].st = "pending"
  /\ type = "unavailable-id" => Registered(W, peers[c][runs[c][r].peer].name)
  /\ CanAlloc(W, c)
  /\ Commit(V25_startMatching(DestroyPeer(W, c, runs[c][r].peer), c, r,
                              runs[c][r].slot + 1))

\* The body of the host-wait timer: rotate when still matching and not busy.
V25_hostWaitRotates(w, c, r) ==
  ~w.isBusy[c] /\ w.runs[c][r].app = "MATCHING"

\* The 10 s host-wait timer fires.
V25_hostWaitTimer(c, r) ==
  /\ r \in 1..Len(runs[c])
  /\ runs[c][r].pc = "hostwait"
  /\ V25_hostWaitRotates(W, c, r) => CanAlloc(W, c)
  /\ IF V25_hostWaitRotates(W, c, r)
       THEN Commit(V25_startMatching(DestroyPeer(W, c, runs[c][r].peer), c, r,
                                     runs[c][r].slot + 1))
       ELSE Commit([W EXCEPT !.runs[c][r].pc = "hosting"])


\* host 'connection': a busy Host answers BUSY once the channel opens, otherwise
\* the connection becomes the session's data connection.
V25_hostOnConnection(h, g, k) ==
  /\ k \in 1..Len(conns[g])
  /\ conns[g][k].st = "pend"
  /\ conns[g][k].hc = h
  /\ PeerLive(W, h, conns[g][k].hp)
  /\ LET w1 == [W EXCEPT !.conns[g][k].st = "open"] IN
     IF isBusy[h]
       THEN Commit([w1 EXCEPT !.conns[g][k].hmode = "busy"])
       ELSE Commit(V25_setupDataConnection(w1, h, g, k, "h"))

\* conn 'open' at a busy Host: send BUSY and arm the 0.5 s close timer.
V25_hostBusyConnOpen(h, g, k) ==
  /\ k \in 1..Len(conns[g])
  /\ conns[g][k].hc = h
  /\ conns[g][k].hmode = "busy"
  /\ conns[g][k].st = "open"
  /\ Commit([W EXCEPT !.conns[g][k].hmode = "busySent",
                      !.conns[g][k].busyMsg = TRUE])

\* The 0.5 s timer of a BUSY answer fires: conn.close().
V25_hostBusyConnClose(h, g, k) ==
  /\ k \in 1..Len(conns[g])
  /\ conns[g][k].hc = h
  /\ conns[g][k].hmode = "busySent"
  /\ Commit([W EXCEPT !.conns[g][k] = [ConnCloseBy(@, "h") EXCEPT !.hmode = "busyDone"]])

\* conn 'data' at the Guest: a BUSY message arrives.  It is handled only when
\* setupDataConnection has attached the handler and the Guest has not closed.
V25_onData(g, k) ==
  /\ k \in 1..Len(conns[g])
  /\ conns[g][k].busyMsg
  /\ conns[g][k].st \in {"open", "closedH"}
  /\ LET w1 == [W EXCEPT !.conns[g][k].busyMsg = FALSE] IN
     IF conns[g][k].gatt
       THEN Commit([V25_cleanup(w1, g) EXCEPT !.error[g] = "Busy"])
       ELSE Commit(w1)

\* conn 'close' at the Guest, after the data sent before it.
V25_connCloseG(g, k) ==
  /\ k \in 1..Len(conns[g])
  /\ conns[g][k].gClose
  /\ ~conns[g][k].busyMsg
  /\ conns[g][k].gVid = 0
  /\ LET w1 == [W EXCEPT !.conns[g][k].gClose = FALSE] IN
     IF conns[g][k].gatt THEN Commit(V25_cleanup(w1, g)) ELSE Commit(w1)

\* conn 'close' at the Host.
V25_connCloseH(h, g, k) ==
  /\ k \in 1..Len(conns[g])
  /\ conns[g][k].hc = h
  /\ conns[g][k].hClose
  /\ conns[g][k].hVid = 0
  /\ LET w1 == [W EXCEPT !.conns[g][k].hClose = FALSE] IN
     IF conns[g][k].hmode = "attached" THEN Commit(V25_cleanup(w1, h)) ELSE Commit(w1)

\* A 'call' handler without the isBusy branch: every call is answered with media.
V25_hostOnCall_NoBusy(h, g, k) ==
  /\ k \in 1..Len(calls[g])
  /\ calls[g][k].stage = "offer"
  /\ calls[g][k].hc = h
  /\ ~calls[g][k].closed
  /\ PeerLive(W, h, calls[g][k].hp)
  /\ Commit([W EXCEPT !.calls[g][k].stage = "hmic"])

\* host 'call': a busy Host answers without media and arms the 0.5 s close
\* timer, otherwise it asks for the microphone.
V25_hostOnCall(h, g, k) ==
  /\ k \in 1..Len(calls[g])
  /\ calls[g][k].stage = "offer"
  /\ calls[g][k].hc = h
  /\ ~calls[g][k].closed
  /\ PeerLive(W, h, calls[g][k].hp)
  /\ Commit([W EXCEPT !.calls[g][k].stage = IF isBusy[h] THEN "busy" ELSE "hmic"])

\* getUserMedia resolves at the Host: answer with the stream and attach the call.
V25_hostMicGranted(h, g, k) ==
  /\ k \in 1..Len(calls[g])
  /\ calls[g][k].hc = h
  /\ calls[g][k].stage = "hmic"
  /\ LET live == ~calls[g][k].closed
         w1 == [HoldNewStream(W, h) EXCEPT
                         !.calls[g][k] = [@ EXCEPT !.stage = "answered",
                                                   !.gStream = live,
                                                   !.hStream = live]]
     IN Commit(V25_setupCall(w1, h, g, k, "h"))

\* getUserMedia rejects at the Host: the error is logged and nothing else happens.
V25_hostMicDenied(h, g, k) ==
  /\ k \in 1..Len(calls[g])
  /\ calls[g][k].hc = h
  /\ calls[g][k].stage = "hmic"
  /\ Commit([W EXCEPT !.calls[g][k].stage = "denied"])

\* The 0.5 s timer of a busy call fires: incomingCall.close().
V25_hostBusyCallClose(h, g, k) ==
  /\ k \in 1..Len(calls[g])
  /\ calls[g][k].hc = h
  /\ calls[g][k].stage = "busy"
  /\ Commit([W EXCEPT !.calls[g][k] = [CallCloseBy(@, "h") EXCEPT !.stage = "busyDone"]])

\* call 'stream' at the caller.
V25_onStreamG(g, k) ==
  /\ k \in 1..Len(calls[g])
  /\ calls[g][k].gStream
  /\ Commit(V25_onConnected([W EXCEPT !.calls[g][k].gStream = FALSE], g))

\* call 'stream' at the callee.
V25_onStreamH(h, g, k) ==
  /\ k \in 1..Len(calls[g])
  /\ calls[g][k].hc = h
  /\ calls[g][k].hStream
  /\ Commit(V25_onConnected([W EXCEPT !.calls[g][k].hStream = FALSE,
                                      !.isVideoActive[h] = @ \/ calls[g][k].vid], h))

\* call 'close' at the caller.
V25_callCloseG(g, k) ==
  /\ k \in 1..Len(calls[g])
  /\ calls[g][k].gClose
  /\ Commit(V25_cleanup([W EXCEPT !.calls[g][k].gClose = FALSE], g))

\* call 'close' at the callee: the handler exists once setupCall has run.
V25_callCloseH(h, g, k) ==
  /\ k \in 1..Len(calls[g])
  /\ calls[g][k].hc = h
  /\ calls[g][k].hClose
  /\ LET w1 == [W EXCEPT !.calls[g][k].hClose = FALSE] IN
     IF calls[g][k].stage = "answered" THEN Commit(V25_cleanup(w1, h)) ELSE Commit(w1)

\* The cancel, hang-up and back buttons all call cleanup.
V25_userCleanup(c) ==
  /\ appState[c] \in {"MATCHING", "CONNECTED", "ERROR"}
  /\ Commit(V25_cleanup(W, c))

Idx == 1..MaxPeers

\* The user's actions.
V25_User(CS, n) ==
  \E c \in CS :
    \/ \E l \in Langs : V25_handleStart(c, l, n)
    \/ V25_userCleanup(c)

\* The ticks of the overall countdown.
V25_Countdown(CS) == \E c \in CS : V25_matchTick(c)

\* The timers and broker events of the matching chains.
V25_Chain(CS, n) ==
  \E c \in CS, r \in 1..n :
    \/ V25_startTimer(c, r)
    \/ V25_guestOpen(c, r)
    \/ V25_connectionTimeout(c, r)
    \/ V25_guestConnOpen(c, r)
    \/ V25_guestMicGranted(c, r)
    \/ V25_guestMicDenied(c, r)
    \/ V25_hostOpen(c, r)
    \/ V25_hostWaitTimer(c, r)

\* A registration that finds the slot name held by another peer.
V25_NameTaken(CS, n) ==
  \E c \in CS, r \in 1..n : V25_hostError(c, r, "unavailable-id")

\* The events of a data connection and a call between an idle host and a guest.
V25_Session(CS) ==
  \E c \in CS, k \in Idx :
    \/ \E g \in CS :
         \/ V25_hostOnConnection(c, g, k)
         \/ V25_connCloseH(c, g, k)
         \/ V25_hostOnCall(c, g, k)
         \/ V25_hostMicGranted(c, g, k)
         \/ V25_hostMicDenied(c, g, k)
         \/ V25_onStreamH(c, g, k)
    \/ V25_connCloseG(c, k)
    \/ V25_onStreamG(c, k)
    \/ V25_callCloseG(c, k)

\* The Host of an answered call learns that the caller has closed it.
V25_CallerLeft(CS) ==
  \E c \in CS, g \in CS, k \in Idx : V25_callCloseH(c, g, k)

\* The events of a connection or a call that reaches a busy host.
V25_Busy(CS) ==
  \E c \in CS, k \in Idx :
    \/ \E g \in CS :
         \/ V25_hostBusyConnOpen(c, g, k)
         \/ V25_hostBusyConnClose(c, g, k)
         \/ V25_hostBusyCallClose(c, g, k)
    \/ V25_onData(c, k)

\* Two clients, one handleStart each.
InitV25 == InitOf(Duo)
NextV25 ==
  \/ V25_User(Duo, MaxRuns)
  \/ V25_Countdown(Duo)
  \/ V25_Chain(Duo, MaxRuns)
  \/ V25_NameTaken(Duo, MaxRuns)
  \/ V25_Session(Duo)
  \/ V25_CallerLeft(Duo)
SpecV25 == InitV25 /\ [][NextV25]_vars

\* One client that may start again while an earlier chain is still pending.
InitV25Solo == InitOf({1})
NextV25Solo ==
  \/ V25_User({1}, MaxRuns + 1)
  \/ V25_Countdown({1})
  \/ V25_Chain({1}, MaxRuns + 1)
  \/ V25_Session({1})
SpecV25Solo == InitV25Solo /\ [][NextV25Solo]_vars

\* Three clients that have all chosen a language before; the countdown is long
\* enough not to expire.
InitV25Trio == InitOf(Clients) /\ \A c \in Clients : selectedLang[c] # Null
NextV25Trio ==
  \/ V25_User(Clients, MaxRuns)
  \/ V25_Chain(Clients, MaxRuns)
  \/ V25_NameTaken(Clients, MaxRuns)
  \/ V25_Session(Clients)
  \/ V25_CallerLeft(Clients)
  \/ V25_Busy(Clients)
SpecV25Trio == InitV25Trio /\ [][NextV25Trio]_vars

\* ============================================================ properties, v25

\* The chains of client c.
RunsOf(c) == 1..Len(runs[c])

\* The chain r of client c holds a registration (pending or open) of its slot.
V25_RunHosts(c, r) ==
  /\ runs[c][r].pc \in {"hopen", "hostwait", "hosting"}
  /\ peers[c][runs[c][r].peer] # DeadPeer

\* The chain r of client c has a probe of its slot in flight.
V25_RunProbes(c, r) ==
  /\ runs[c][r].pc \in {"probe", "gmic"}
  /\ conns[c][runs[c][r].conn] # DeadConn

\* C3: the name a chain registers as Host is the name a Guest probes for the
\* same language and slot, and the name a Guest probes is the name a Host
\* registers for them; so a Host and a Guest of two chains (of two clients or
\* of one) that are on the same language and slot use the identical name.
C3_SlotNameAgrees ==
  /\ \A c \in Clients : \A r \in RunsOf(c) :
       /\ V25_RunHosts(c, r) =>
            peers[c][runs[c][r].peer].name =
              V25_startMatching_roomId(runs[c][r].lang, runs[c][r].slot)
       /\ V25_RunProbes(c, r) =>
            conns[c][runs[c][r].conn].name =
              V25_becomeHost_roomId(runs[c][r].lang, runs[c][r].slot)
  /\ \A c \in Clients, d \in Clients : \A r \in RunsOf(c), q \in RunsOf(d) :
       ( /\ V25_RunHosts(c, r) /\ V25_RunProbes(d, q)
         /\ runs[c][r].lang = runs[d][q].lang
         /\ runs[c][r].slot = runs[d][q].slot )
       => peers[c][runs[c][r].peer].name = conns[d][runs[d][q].conn].name

\* A Guest's probe of slot 1 has reached the registration of another client's
\* chain that hosts slot 1 for the same language.
C3_Witness ==
  \E c \in Clients : \E d \in Clients \ {c} : \E r \in RunsOf(c), q \in RunsOf(d) :
    /\ V25_RunHosts(c, r) /\ V25_RunProbes(d, q)
    /\ runs[c][r].lang = runs[d][q].lang
    /\ runs[c][r].slot = runs[d][q].slot
    /\ conns[d][runs[d][q].conn].hc = c
    /\ conns[d][runs[d][q].conn].hp = runs[c][r].peer

\* An answered call that is still up.
Paired(g, k) == calls[g][k].stage = "answered" /\ ~calls[g][k].closed

\* C2: in every established pairing the caller is a Guest (a Peer with a random
\* identity) of one client and the answerer is a Host (a Peer registered under
\* a slot name) of another client.
C2_OneHostOneGuest ==
  \A g \in Clients : \A k \in 1..Len(calls[g]) :
    Paired(g, k) =>
      /\ calls[g][k].hc # g
      /\ peers[g][calls[g][k].gp].name = Rand
      /\ peers[calls[g][k].hc][calls[g][k].hp].name # Rand

\* C5: a registration that fails with unavailable-id is followed by a Guest
\* attempt of the same chain on the same slot.
C5_LoserJoinsSameSlot ==
  [][\A c \in Clients : \A r \in RunsOf(c) :
       ( /\ runs[c][r].pc = "hopen"
         /\ peers[c][runs[c][r].peer].st = "pending"
         /\ Registered(W, peers[c][runs[c][r].peer].name)
         /\ runs'[c][r].pc # "hopen" )
       => /\ runs'[c][r].pc = "gopen"
          /\ runs'[c][r].slot = runs[c][r].slot]_vars

\* Both clients are matching, each is the Host of a different slot, and no
\* timer or broker event is left that could bring them together.
V25_Standoff ==
  /\ \A c \in Duo : /\ appState[c] = "MATCHING"
                    /\ \E r \in RunsOf(c) : /\ runs[c][r].pc = "hosting"
                                            /\ PeerLive(W, c, runs[c][r].peer)
  /\ selectedLang[1] = selectedLang[2]
  /\ ~ENABLED \/ V25_Chain(Duo, MaxRuns) \/ V25_NameTaken(Duo, MaxRuns)
              \/ V25_Session(Duo) \/ V25_CallerLeft(Duo)

\* C4: two clients matching with the same language never reach a state where
\* both wait as Hosts and nothing but the countdown or the user can move them.
C4_NoStandoff == ~V25_Standoff

\* C6: when the host-wait timer of a chain fires while the client is matching,
\* not busy and has no connection or call attached, the registration is
\* destroyed and the chain leaves the slot.
C6_HostWaitReleases ==
  [][\A c \in Clients : \A r \in RunsOf(c) :
       ( /\ runs[c][r].pc = "hostwait"
         /\ runs'[c][r].pc # "hostwait"
         /\ appState[c] = "MATCHING"
         /\ ~isBusy[c]
         /\ dataConnRef[c] = NoRef /\ callRef[c] = NoRef )
       => /\ peers'[c][runs[c][r].peer] = DeadPeer
          /\ runs'[c][r].pc \in {"gopen", "delay"}
          /\ runs'[c][r].slot = (runs[c][r].slot % MAX_SLOTS) + 1]_vars

\* C8: the tick that takes the countdown to 0 puts the client in Error with the
\* no-partner cause, and a client in that Error leaves it only by handleStart
\* (retry) or by the user's cleanup (back).
C8_TimeoutErrorStays ==
  [][\A c \in Clients :
       /\ (matchIv[c] /\ matchTimer[c] <= 1 /\ V25_matchTick(c))
            => appState'[c] = "ERROR" /\ error'[c] = "NoPartner"
       /\ (appState[c] = "ERROR" /\ error[c] = "NoPartner" /\ appState'[c] # "ERROR")
            => \/ \E l \in Langs : V25_handleStart(c, l, MaxRuns)
               \/ V25_userCleanup(c)]_vars

\* The calls a client has answered with media and that are still up.
AnsweredBy(h) ==
  {p \in {<<g, k>> : g \in Clients, k \in Idx} :
     /\ p[2] <= Len(calls[p[1]])
     /\ calls[p[1]][p[2]].hc = h
     /\ Paired(p[1], p[2])}

\* C9: no client has answered two calls with media at the same time, and no
\* two clients are Connected as callers of the same Host.
C9_OneSession ==
  \A h \in Clients :
    /\ Cardinality(AnsweredBy(h)) <= 1
    /\ Cardinality({p \in AnsweredBy(h) : appState[p[1]] = "CONNECTED"
                                          /\ callRef[p[1]] = <<p[1], p[2], "g">>}) <= 1

\* The connections and calls that reached a Host while it was busy.
BusyConn(g, k) == conns[g][k].hmode \in {"busy", "busySent", "busyDone"}
BusyCall(g, k) == calls[g][k].stage \in {"busy", "busyDone"}

\* C10: a connection that a busy Host accepts is marked for the BUSY answer and
\* a call that a busy Host receives is answered without media, neither
\* replaces the Host's dataConnRef or callRef; the BUSY message is sent before
\* the connection is closed; such a connection or call is never the Host's
\* session and never carries a stream event; and a client becomes Connected
\* only by the stream of a call that was answered with media.
C10_BusyHostTurnsAway ==
  [][/\ \A g \in Clients : \A k \in 1..Len(conns[g]) :
          LET h == conns[g][k].hc IN
          /\ (conns[g][k].st = "pend" /\ conns'[g][k].st = "open" /\ isBusy[h])
               => /\ conns'[g][k].hmode = "busy"
                  /\ dataConnRef'[h] = dataConnRef[h]
          /\ (BusyConn(g, k) /\ conns[g][k].st = "open" /\ ConnClosed(conns'[g][k])
                /\ peers'[h][conns[g][k].hp].st = "open" /\ peers'[g][conns[g][k].gp].st = "open")
               => conns[g][k].hmode = "busySent"
          /\ BusyConn(g, k) => dataConnRef'[h] # <<g, k, "h">>
     /\ \A g \in Clients : \A k \in 1..Len(calls[g]) :
          LET h == calls[g][k].hc IN
          /\ (calls[g][k].stage = "offer" /\ calls'[g][k].stage \notin {"offer", "closed"}
                /\ isBusy[h])
               => /\ calls'[g][k].stage = "busy"
                  /\ callRef'[h] = callRef[h]
          /\ BusyCall(g, k) => /\ callRef'[h] # <<g, k, "h">>
                               /\ ~calls'[g][k].gStream /\ ~calls'[g][k].hStream
     /\ \A c \in Clients :
          (appState[c] # "CONNECTED" /\ appState'[c] = "CONNECTED")
            => \E g \in Clients : \E k \in 1..Len(calls[g]) :
                 /\ calls[g][k].stage = "answered"
                 /\ \/ g = c /\ calls[g][k].gStream /\ ~calls'[g][k].gStream
                    \/ calls[g][k].hc = c /\ calls[g][k].hStream /\ ~calls'[g][k].hStream]_vars

\* A busy Host has sent BUSY on a further connection and closed it, has closed
\* a further call, and is still Connected in its own session.
C10_Witness ==
  \E h \in Clients : \E g \in Clients \ {h} :
    /\ isBusy[h] /\ appState[h] = "CONNECTED"
    /\ callRef[h] # NoRef /\ callRef[h][1] # g
    /\ \E k \in 1..Len(conns[g]) :
         conns[g][k].hc = h /\ conns[g][k].hmode = "busyDone"
    /\ \E k \in 1..Len(calls[g]) :
         calls[g][k].hc = h /\ calls[g][k].stage = "busyDone"

\* ============================================================ variant v5
\* src/unnamed/part_004: register the slot as Host first, call its holder as
\* Guest when the name is taken.  There is no language and no countdown.

\* A room number that follows the index without wrapping.
V5_roomNumber_NoWrap(roomIndex) == roomIndex

\* roomNumber of startScanning: the index wrapped into 1..MAX_SLOTS.
V5_roomNumber(roomIndex) == ((roomIndex - 1) % MAX_SLOTS) + 1

V5_targetId(roomNumber) == "anyone-v5-room-" \o ToString(roomNumber)

\* clearTimeout(scanTimerRef.current): the timer is pending only while the
\* chain that armed it waits in "scanwait".
V5_clearScanTimer(w, c) ==
  IF w.scanTimerRef[c] # 0 /\ w.runs[c][w.scanTimerRef[c]].pc = "scanwait"
    THEN [w EXCEPT !.runs[c][w.scanTimerRef[c]].pc = "hosting"]
    ELSE w

V5_cleanup(w, c) ==
  LET w1 == [V5_clearScanTimer(w, c) EXCEPT !.sessionIv[c] = FALSE]
      w2 == CloseCallRef(w1, w1.callRef[c])
      w3 == CloseConnRef(w2, w2.dataConnRef[c])
      w4 == DestroyPeer(StopHeldStream(w3, c), c, w3.peerRef[c])
  IN [w4 EXCEPT !.peerRef[c] = 0, !.callRef[c] = NoRef,
                !.dataConnRef[c] = NoRef, !.localStreamRef[c] = Null,
                !.appState[c] = "IDLE", !.elapsedTime[c] = 0,
                !.isVideoActive[c] = FALSE]

V5_setupDataConnection(w, c, g, k, side) ==
  [w EXCEPT !.dataConnRef[c] = <<g, k, side>>,
            !.conns[g][k] = IF side = "g" THEN [@ EXCEPT !.gatt = TRUE]
                            ELSE [@ EXCEPT !.hmode = "attached"]]

V5_handleCall(w, c, g, k, side) ==
  [V5_clearScanTimer(w, c) EXCEPT !.callRef[c] = <<g, k, side>>]

\* The 'stream' handler of handleCall (audio only: no video track).
V5_onStream(w, c) ==
  [w EXCEPT !.appState[c] = "CONNECTED", !.sessionIv[c] = TRUE]

\* Peer i of client c has an open connection or call whose 'close' handler is
\* cleanup: destroying the Peer closes it and runs the handler at once.
V5_closeHandlerRuns(w, c, i) ==
  /\ i # 0
  /\ \/ \E k \in 1..Len(w.conns[c]) :
          w.conns[c][k].gp = i /\ w.conns[c][k].st = "open" /\ w.conns[c][k].gatt
     \/ \E k \in 1..Len(w.calls[c]) :
          w.calls[c][k].gp = i /\ CallOpen(w.calls[c][k])
     \/ \E g \in Clients :
          \/ \E k \in 1..Len(w.conns[g]) :
               /\ w.conns[g][k].hc = c /\ w.conns[g][k].hp = i
               /\ w.conns[g][k].st = "open" /\ w.conns[g][k].hmode = "attached"
          \/ \E k \in 1..Len(w.calls[g]) :
               /\ w.calls[g][k].hc = c /\ w.calls[g][k].hp = i
               /\ w.calls[g][k].stage = "answered" /\ ~w.calls[g][k].closed

\* startScanning(roomIndex), called from the chain r of client c.
V5_startScanning(w, c, r, roomIndex) ==
  IF w.runs[c][r].app = "CONNECTED"
    THEN [w EXCEPT !.runs[c][r].pc = "dead"]
    ELSE LET w1 == IF V5_closeHandlerRuns(w, c, w.peerRef[c])
                     THEN V5_cleanup(DestroyPeer(w, c, w.peerRef[c]), c)
                     ELSE DestroyPeer(w, c, w.peerRef[c])
             w2 == NewPeer(w1, c, V5_targetId(V5_roomNumber(roomIndex)))
         IN [w2 EXCEPT !.peerRef[c] = Len(w2.peers[c]),
                       !.runs[c][r] = [@ EXCEPT !.pc = "hopen",
                                                !.slot = V5_roomNumber(roomIndex),
                                                !.peer = Len(w2.peers[c]),
                                                !.conn = 0]]

\* The Start button of the Idle screen; s is the random slot it draws.
V5_start(c, s, n) ==
  /\ appState[c] = "IDLE"
  /\ CanStart(W, c, n)
  /\ CanAlloc(W, c)
  /\ \E w1 \in {[W EXCEPT !.error[c] = Null, !.appState[c] = "MATCHING",
                          !.runs[c] = Append(@, NewRun(W, c, "new"))]} :
       Commit(V5_startScanning(w1, c, Len(w1.runs[c]), s))

\* peer 'open': the name is registered; arm the scan timer.
V5_hostOpen(c, r) ==
  /\ r \in 1..Len(runs[c])
  /\ runs[c][r].pc = "hopen"
  /\ peers[c][runs[c][r].peer].st = "pending"
  /\ ~Registered(W, peers[c][runs[c][r].peer].name)
  /\ Commit([W EXCEPT !.peers[c][runs[c][r].peer].st = "open",
                      !.runs[c][r].pc = "scanwait",
                      !.scanTimerRef[c] = r])

\* peer 'error' unavailable-id: destroy the Peer and join the holder instead;
\* initiateConnection first awaits the microphone.
V5_hostError(c, r) ==
  /\ r \in 1..Len(runs[c])
  /\ runs[c][r].pc = "hopen"
  /\ peers[c][runs[c][r].peer].st = "pending"
  /\ Registered(W, peers[c][runs[c][r].peer].name)
  /\ Commit([DestroyPeer(W, c, runs[c][r].peer) EXCEPT !.runs[c][r].pc = "jmic"])

\* getUserMedia resolves in initiateConnection: create the caller Peer.
V5_joinMicGranted(c, r) ==
  /\ r \in 1..Len(runs[c])
  /\ runs[c][r].pc = "jmic"
  /\ CanAlloc(W, c)
  /\ \E w1 \in {NewPeer(HoldNewStream(W, c), c, Rand)} :
       Commit([w1 EXCEPT !.peerRef[c] = Len(w1.peers[c]),
                         !.runs[c][r] = [@ EXCEPT !.pc = "jopen",
                                                  !.peer = Len(w1.peers[c])]])

\* getUserMedia rejects in initiateConnection.
V5_joinMicDenied(c, r) ==
  /\ r \in 1..Len(runs[c])
  /\ runs[c][r].pc = "jmic"
  /\ Commit(V5_cleanup([W EXCEPT !.error[c] = "Mic", !.runs[c][r].pc = "done"], c))

\* caller 'open': call the slot name, then connect to it.  When nobody holds
\* the name the broker answers with a peer-unavailable error.
V5_callerOpen(c, r) ==
  /\ r \in 1..Len(runs[c])
  /\ runs[c][r].pc = "jopen"
  /\ peers[c][runs[c][r].peer].st = "pending"
  /\ LET run == runs[c][r]
         w1 == [W EXCEPT !.peers[c][run.peer].st = "open"]
         w2 == NewCall(w1, c, run.peer, V5_targetId(run.slot))
         w3 == V5_handleCall(w2, c, c, Len(w2.calls[c]), "g")
         w4 == NewConn(w3, c, run.peer, V5_targetId(run.slot))
         w5 == V5_setupDataConnection(w4, c, c, Len(w4.conns[c]), "g")
     IN Commit([w5 EXCEPT !.runs[c][r] =
                  [@ EXCEPT !.pc = IF Registered(w1, V5_targetId(run.slot))
                                     THEN "done" ELSE "jerr",
                            !.conn = Len(w4.conns[c])]])

\* caller 'error' (peer-unavailable): cleanup.
V5_callerError(c, r) ==
  /\ r \in 1..Len(runs[c])
  /\ runs[c][r].pc = "jerr"
  /\ IF PeerLive(W, c, runs[c][r].peer)
       THEN Commit(V5_cleanup([W EXCEPT !.runs[c][r].pc = "done"], c))
       ELSE Commit([W EXCEPT !.runs[c][r].pc = "done"])

\* The scan timer fires: startScanning(roomNumber + 1).
V5_scanTimer(c, r) ==
  /\ r \in 1..Len(runs[c])
  /\ runs[c][r].pc = "scanwait"
  /\ CanAlloc(W, c)
  /\ Commit(V5_startScanning(W, c, r, runs[c][r].slot + 1))

\* peer 'connection' at the Host.
V5_hostOnConnection(h, g, k) ==
  /\ k \in 1..Len(conns[g])
  /\ conns[g][k].st = "pend"
  /\ conns[g][k].hc = h
  /\ PeerLive(W, h, conns[g][k].hp)
  /\ Commit(V5_setupDataConnection([W EXCEPT !.conns[g][k].st = "open"], h, g, k, "h"))

\* peer 'call' at the Host: await the microphone.
V5_hostOnCall(h, g, k) ==
  /\ k \in 1..Len(calls[g])
  /\ calls[g][k].stage = "offer"
  /\ calls[g][k].hc = h
  /\ ~calls[g][k].closed
  /\ PeerLive(W, h, calls[g][k].hp)
  /\ Commit([W EXCEPT !.calls[g][k].stage = "hmic"])

\* getUserMedia resolves at the Host: answer, then handleCall.
V5_hostMicGranted(h, g, k) ==
  /\ k \in 1..Len(calls[g])
  /\ calls[g][k].hc = h
  /\ calls[g][k].stage = "hmic"
  /\ Commit(V5_handleCall(
       [HoldNewStream(W, h) EXCEPT
                 !.calls[g][k] = [@ EXCEPT !.stage = "answered",
                                           !.gStream = ~calls[g][k].closed,
                                           !.hStream = ~calls[g][k].closed]],
       h, g, k, "h"))

\* getUserMedia rejects at the Host: nothing catches it.
V5_hostMicDenied(h, g, k) ==
  /\ k \in 1..Len(calls[g])
  /\ calls[g][k].hc = h
  /\ calls[g][k].stage = "hmic"
  /\ Commit([W EXCEPT !.calls[g][k].stage = "denied"])

V5_onStreamG(g, k) ==
  /\ k \in 1..Len(calls[g])
  /\ calls[g][k].gStream
  /\ Commit(V5_onStream([W EXCEPT !.calls[g][k].gStream = FALSE], g))

V5_onStreamH(h, g, k) ==
  /\ k \in 1..Len(calls[g])
  /\ calls[g][k].hc = h
  /\ calls[g][k].hStream
  /\ Commit(V5_onStream([W EXCEPT !.calls[g][k].hStream = FALSE], h))

V5_connCloseG(g, k) ==
  /\ k \in 1..Len(conns[g])
  /\ conns[g][k].gClose
  /\ \E w1 \in {[W EXCEPT !.conns[g][k].gClose = FALSE]} :
       IF conns[g][k].gatt THEN Commit(V5_cleanup(w1, g)) ELSE Commit(w1)

V5_connCloseH(h, g, k) ==
  /\ k \in 1..Len(conns[g])
  /\ conns[g][k].hc = h
  /\ conns[g][k].hClose
  /\ \E w1 \in {[W EXCEPT !.conns[g][k].hClose = FALSE]} :
       IF conns[g][k].hmode = "attached" THEN Commit(V5_cleanup(w1, h)) ELSE Commit(w1)

V5_callCloseG(g, k) ==
  /\ k \in 1..Len(calls[g])
  /\ calls[g][k].gClose
  /\ Commit(V5_cleanup([W EXCEPT !.calls[g][k].gClose = FALSE], g))

V5_callCloseH(h, g, k) ==
  /\ k \in 1..Len(calls[g])
  /\ calls[g][k].hc = h
  /\ calls[g][k].hClose
  /\ \E w1 \in {[W EXCEPT !.calls[g][k].hClose = FALSE]} :
       IF calls[g][k].stage = "answered" THEN Commit(V5_cleanup(w1, h)) ELSE Commit(w1)

\* The Cancel and hang-up buttons call cleanup.
V5_userCleanup(c) ==
  /\ appState[c] \in {"MATCHING", "CONNECTED"}
  /\ Commit(V5_cleanup(W, c))

\* The timers and broker events of the scanning chains.
V5_Chain(CS, n) ==
  \E c \in CS, r \in 1..n :
    \/ V5_hostOpen(c, r)
    \/ V5_hostError(c, r)
    \/ V5_joinMicGranted(c, r)
    \/ V5_joinMicDenied(c, r)
    \/ V5_callerOpen(c, r)
    \/ V5_callerError(c, r)
    \/ V5_scanTimer(c, r)

\* The events of the connections and calls.
V5_Session(CS) ==
  \E c \in CS, k \in Idx :
    \/ \E g \in CS :
         \/ V5_hostOnConnection(c, g, k)
         \/ V5_hostOnCall(c, g, k)
         \/ V5_hostMicGranted(c, g, k)
         \/ V5_hostMicDenied(c, g, k)
         \/ V5_onStreamH(c, g, k)
         \/ V5_connCloseH(c, g, k)
         \/ V5_callCloseH(c, g, k)
    \/ V5_onStreamG(c, k)
    \/ V5_connCloseG(c, k)
    \/ V5_callCloseG(c, k)

V5_User(CS, n) ==
  \E c \in CS :
    \/ \E s \in 1..MAX_SLOTS : V5_start(c, s, n)
    \/ V5_userCleanup(c)

\* Two clients, one Start each.
InitV5 == InitOf({})
NextV5 == V5_User(Duo, MaxRuns) \/ V5_Chain(Duo, MaxRuns) \/ V5_Session(Duo)
SpecV5 == InitV5 /\ [][NextV5]_vars

\* Two clients; client 1 may press Start again after a Cancel, client 2
\* presses Start once and stays.
InitV5Again == InitOf({})
NextV5Again ==
  \/ V5_User({1}, MaxRuns + 1)
  \/ \E s \in 1..MAX_SLOTS : V5_start(2, s, MaxRuns)
  \/ V5_Chain(Duo, MaxRuns + 1)
  \/ V5_Session(Duo)
SpecV5Again == InitV5Again /\ [][NextV5Again]_vars

\* ============================================================ properties, v5

\* x and y are Connected in one audio-only call that y placed and x answered.
V5_PairedAs(x, y) ==
  /\ appState[x] = "CONNECTED" /\ appState[y] = "CONNECTED"
  /\ ~isVideoActive[x] /\ ~isVideoActive[y]
  /\ \E k \in 1..Len(calls[y]) :
       /\ Paired(y, k)
       /\ callRef[y] = <<y, k, "g">>
       /\ callRef[x] = <<y, k, "h">>
       /\ peers[y][calls[y][k].gp].name = Rand
       /\ peers[x][calls[y][k].hp].name # Rand

\* C1: Scenario A.  A client whose registration failed with unavailable-id
\* calls the slot name from its caller Peer; while the other client is still
\* matching, the call reaches it as the holder of the name; and whenever the
\* two are Connected by that call it is audio only, the holder is the Host and
\* the caller the Guest.
C1_ScenarioA ==
  [][\A y \in Duo : \A x \in Duo \ {y} :
       /\ \A q \in RunsOf(y) :
            (V5_callerOpen(y, q) /\ appState[x] = "MATCHING") =>
              /\ Holder(W, V5_targetId(runs[y][q].slot)) # {}
              /\ calls'[y][Len(calls'[y])].stage = "offer"
              /\ calls'[y][Len(calls'[y])].hc = x
       /\ (appState[x] = "CONNECTED" /\ appState[y] = "CONNECTED"
             /\ callRef[y] # NoRef /\ callRef[y][3] = "g")
            => V5_PairedAs(x, y)]_vars

\* A Guest's call or connection has reached Peer i of client h and is up.
V5_GuestReached(h, i) ==
  \E g \in Clients :
    \/ \E k \in 1..Len(calls[g]) :
         /\ calls[g][k].hc = h /\ calls[g][k].hp = i
         /\ calls[g][k].stage \in {"hmic", "answered"} /\ ~calls[g][k].closed
    \/ \E k \in 1..Len(conns[g]) :
         /\ conns[g][k].hc = h /\ conns[g][k].hp = i
         /\ conns[g][k].st = "open" /\ conns[g][k].hmode = "attached"

\* C7: when the scan timer of a Host fires after a Guest's call or connection
\* has reached the Host's Peer, the Peer stays registered and the chain stays
\* on its slot.
C7_TimerSparesReachedHost ==
  [][\A c \in Clients : \A r \in RunsOf(c) :
       ( /\ runs[c][r].pc = "scanwait"
         /\ V5_GuestReached(c, runs[c][r].peer)
         /\ V5_scanTimer(c, r) )
       => /\ peers'[c][runs[c][r].peer].st = "open"
          /\ runs'[c][r].slot = runs[c][r].slot]_vars

\* ============================================================ teardown, v25

\* C11: from any state, cleanup leaves the client Idle, the call and the data
\* connection it held closed and their references null, the held local stream
\* stopped and its reference null, and no match-countdown or elapsed-time
\* interval of the client running.
C11_CleanupReleasesAll ==
  \A c \in Clients :
    LET w == V25_cleanup(W, c) IN
    /\ w.appState[c] = "IDLE"
    /\ w.callRef[c] = NoRef /\ w.dataConnRef[c] = NoRef /\ w.localStreamRef[c] = Null
    /\ callRef[c] # NoRef => w.calls[callRef[c][1]][callRef[c][2]].closed
    /\ dataConnRef[c] # NoRef => ConnClosed(w.conns[dataConnRef[c][1]][dataConnRef[c][2]])
    /\ localStreamRef[c] # Null => w.liveStreams[c] = liveStreams[c] - 1
    /\ ~w.matchIv[c] /\ ~w.sessionIv[c] /\ w.leakedIv[c] = 0

\* A timer of chain r of client c fires: the start or restart delay, the
\* probe timeout or the host-wait timer.
V25_TimerFires(c, r) ==
  \/ V25_startTimer(c, r)
  \/ V25_connectionTimeout(c, r)
  \/ V25_hostWaitTimer(c, r)

\* C12: a timer that fires once cleanup has returned the client to the Idle or
\* the Error screen creates no Peer and starts no slot attempt.
C12_TimersDeadAfterCleanup ==
  [][\A c \in Duo : \A r \in RunsOf(c) :
       (appState[c] \in {"IDLE", "ERROR"} /\ V25_TimerFires(c, r))
       => /\ Len(peers'[c]) = Len(peers[c])
          /\ runs'[c][r].pc \notin {"gopen", "hopen", "delay"}]_vars

\* cleanup runs at client c during matching: the Cancel button, or the last
\* tick of the countdown.
V25_CleanupWhileMatching(c) ==
  /\ appState[c] = "MATCHING"
  /\ V25_userCleanup(c) \/ (matchTimer[c] <= 1 /\ V25_matchTick(c))

\* C13: right after cleanup during matching every Peer the client has created
\* is destroyed, so none holds a slot name, and no connection it has opened
\* from a probe is still open or pending.
C13_NoPeerSurvivesCleanup ==
  [][\A c \in Clients :
       V25_CleanupWhileMatching(c)
       => /\ \A i \in 1..Len(peers'[c]) : peers'[c][i].st = "destroyed"
          /\ \A k \in 1..Len(conns'[c]) : conns'[c][k].st \notin {"pend", "open"}]_vars

\* The Peers of client c that are created and not destroyed.
LivePeers(c) == {i \in 1..Len(peers[c]) : peers[c][i].st # "destroyed"}

\* C14: at any time a client has at most one live Peer.
C14_OneLivePeer == \A c \in Clients : Cardinality(LivePeers(c)) <= 1

\* The state cleanup is meant to leave at client c: Idle, every handle null,
\* no interval of the client running.
V25_TornDown(w, c) ==
  /\ w.appState[c] = "IDLE"
  /\ w.peerRef[c] = 0 /\ w.callRef[c] = NoRef
  /\ w.dataConnRef[c] = NoRef /\ w.localStreamRef[c] = Null
  /\ ~w.isBusy[c]
  /\ ~w.matchIv[c] /\ ~w.sessionIv[c] /\ w.leakedIv[c] = 0

\* A second cleanup right after a first changes nothing: it closes no call or
\* connection, destroys no Peer and stops no stream.
V25_CleanupTwiceIsOnce(c) ==
  V25_cleanup(V25_cleanup(W, c), c) = V25_cleanup(W, c)

\* C15: in every state, whichever event calls cleanup, a second cleanup right
\* after the first gives the state of one cleanup, and that state is Idle with
\* all handles null and no timers.
C15_CleanupIdempotent ==
  \A c \in Clients :
    /\ V25_CleanupTwiceIsOnce(c)
    /\ V25_TornDown(V25_cleanup(W, c), c)

\* C16: whenever a client is Idle, callRef, dataConnRef and localStreamRef are
\* null and isBusy is false.
C16_NoZombieSession ==
  \A c \in Clients :
    appState[c] = "IDLE"
    => /\ callRef[c] = NoRef /\ dataConnRef[c] = NoRef
       /\ localStreamRef[c] = Null /\ ~isBusy[c]

\* ============================================================ hang-up, v25

\* a and b are Connected to each other: one of the two placed the call and
\* opened the data connection, and both ends hold both.
V25_InSession(a, b) ==
  /\ appState[a] = "CONNECTED" /\ appState[b] = "CONNECTED"
  /\ callRef[a] # NoRef /\ dataConnRef[a] # NoRef
  /\ LET g == callRef[a][1]
         k == callRef[a][2]
         j == dataConnRef[a][2]
         h == IF g = a THEN b ELSE a
     IN /\ g \in {a, b} /\ dataConnRef[a][1] = g
        /\ Paired(g, k) /\ calls[g][k].hc = h
        /\ callRef[g] = <<g, k, "g">> /\ callRef[h] = <<g, k, "h">>
        /\ conns[g][j].st = "open" /\ conns[g][j].hc = h
        /\ dataConnRef[g] = <<g, j, "g">> /\ dataConnRef[h] = <<g, j, "h">>

\* The 'close' of the call and of the data connection that client b holds are
\* waiting for it.
V25_CloseOnItsWay(b) ==
  /\ callRef[b] # NoRef /\ dataConnRef[b] # NoRef
  /\ LET cl == calls[callRef[b][1]][callRef[b][2]]
         cn == conns[dataConnRef[b][1]][dataConnRef[b][2]]
     IN IF callRef[b][3] = "g" THEN cl.gClose /\ cn.gClose
        ELSE cl.hClose /\ cn.hClose

\* Client b handles the 'close' of the call or the data connection it holds.
V25_HearsClose(b) ==
  \/ /\ callRef[b] # NoRef
     /\ IF callRef[b][3] = "g" THEN V25_callCloseG(b, callRef[b][2])
        ELSE V25_callCloseH(b, callRef[b][1], callRef[b][2])
  \/ /\ dataConnRef[b] # NoRef
     /\ IF dataConnRef[b][3] = "g" THEN V25_connCloseG(b, dataConnRef[b][2])
        ELSE V25_connCloseH(b, dataConnRef[b][1], dataConnRef[b][2])

\* Client b is Idle with call, data connection and media released.
V25_Released(b) ==
  /\ appState[b] = "IDLE"
  /\ callRef[b] = NoRef /\ dataConnRef[b] = NoRef
  /\ localStreamRef[b] = Null /\ liveStreams[b] = 0

\* C17: Scenario D.  When a hangs up in a Connected session with b, the close
\* of the call and of the data connection are on their way to b; and when b,
\* Connected and with both on their way, handles the first of them, it
\* becomes Idle with call, data connection and media released, it is not in
\* the Error state and its error cause is unchanged.
C17_ScenarioD ==
  [][\A b \in Clients :
       /\ \A a \in Clients \ {b} :
            (V25_InSession(a, b) /\ V25_userCleanup(a))
            => V25_CloseOnItsWay(b)'
       /\ (appState[b] = "CONNECTED" /\ V25_CloseOnItsWay(b) /\ V25_HearsClose(b))
            => /\ V25_Released(b)'
               /\ error'[b] = error[b]]_vars

\* ============================================================ video upgrade, v25

\* A gate that lets every click through.
V25_videoGated_Open(c) == FALSE

\* The gate of toggleVideo: the click only shows a toast.
V25_videoGated(c) == elapsedTime[c] < VIDEO_GATE /\ ~isVideoActive[c]

\* One tick of an interval created by onConnected.
V25_sessionTick(c) ==
  /\ sessionIv[c] \/ leakedIv[c] > 0
  /\ elapsedTime[c] < VIDEO_GATE
  /\ Commit([W EXCEPT !.elapsedTime[c] = @ + 1])

\* The video button of the Connected screen, up to the await of getUserMedia.
V25_toggleVideo(c) ==
  /\ appState[c] = "CONNECTED"
  /\ ~V25_videoGated(c)
  /\ videoAsked[1] + videoAsked[2] + videoAsked[3] < MaxVideo
  /\ Commit([W EXCEPT !.videoAsked[c] = @ + 1, !.videoPending[c] = @ + 1])

\* A toggleVideo that tells the partner nothing.
V25_sendVideoSignal_Silent(w, c) == w

\* dataConnRef.current.send({ type: 'VIDEO_SIGNAL' }): the message travels
\* when the channel is open.
V25_sendVideoSignal(w, c) ==
  LET ref == w.dataConnRef[c] IN
  IF ref = NoRef \/ w.conns[ref[1]][ref[2]].st # "open" THEN w
  ELSE IF ref[3] = "g"
    THEN [w EXCEPT !.conns[ref[1]][ref[2]].hVid = @ + 1]
    ELSE [w EXCEPT !.conns[ref[1]][ref[2]].gVid = @ + 1]

\* peerRef.current.call(callRef.current.peer, stream) followed by setupCall.
\* A Guest calls the name of the Host's Peer.  A Host calls the Guest's Peer,
\* which has no 'call' handler: nothing ever happens to that call.
V25_callWithVideo(w, c) ==
  LET ref == w.callRef[c]
      old == w.calls[ref[1]][ref[2]]
      w1 == IF ref[3] = "g" /\ old.hc # 0
              THEN NewCall(w, c, w.peerRef[c], w.peers[old.hc][old.hp].name)
              ELSE NewCall(w, c, w.peerRef[c], "-")
      k == Len(w1.calls[c])
  IN IF ref = NoRef \/ w.peerRef[c] = 0 THEN w
     ELSE V25_setupCall([w1 EXCEPT !.calls[c][k].vid = TRUE], c, c, k, "g")

\* getUserMedia({ audio, video }) resolves in toggleVideo.
V25_videoGranted(c) ==
  /\ videoPending[c] > 0
  /\ LET w1 == HoldNewStream([W EXCEPT !.videoPending[c] = @ - 1], c)
         w2 == V25_sendVideoSignal(w1, c)
         w3 == V25_callWithVideo(w2, c)
     IN Commit([w3 EXCEPT !.isVideoActive[c] = TRUE])

\* getUserMedia rejects in toggleVideo: a toast.
V25_videoDenied(c) ==
  /\ videoPending[c] > 0
  /\ Commit([W EXCEPT !.videoPending[c] = @ - 1])

\* conn 'data' at the Guest: a VIDEO_SIGNAL arrives.
V25_onVideoSignalG(g, k) ==
  /\ k \in 1..Len(conns[g])
  /\ conns[g][k].gVid > 0
  /\ LET w1 == [W EXCEPT !.conns[g][k].gVid = @ - 1] IN
     IF conns[g][k].gatt
       THEN Commit([w1 EXCEPT !.isVideoActive[g] = TRUE])
       ELSE Commit(w1)

\* conn 'data' at the Host: a VIDEO_SIGNAL arrives.
V25_onVideoSignalH(h, g, k) ==
  /\ k \in 1..Len(conns[g])
  /\ conns[g][k].hc = h
  /\ conns[g][k].hVid > 0
  /\ LET w1 == [W EXCEPT !.conns[g][k].hVid = @ - 1] IN
     IF conns[g][k].hmode = "attached"
       THEN Commit([w1 EXCEPT !.isVideoActive[h] = TRUE])
       ELSE Commit(w1)

\* Client c handles an incoming VIDEO_SIGNAL.
V25_onVideoSignal(c) ==
  \E k \in Idx :
    \/ V25_onVideoSignalG(c, k)
    \/ \E g \in Duo : V25_onVideoSignalH(c, g, k)

\* The video button, the session clock and the events they lead to.
V25_Video(CS) ==
  \E c \in CS :
    \/ V25_sessionTick(c)
    \/ V25_toggleVideo(c)
    \/ V25_videoGranted(c)
    \/ V25_videoDenied(c)
    \/ \E k \in Idx :
         \/ V25_onVideoSignalG(c, k)
         \/ \E g \in CS :
              \/ V25_onVideoSignalH(c, g, k)
              \/ V25_hostBusyCallClose(c, g, k)

\* The hang-up button of the Connected screen.
V25_hangUp(c) == appState[c] = "CONNECTED" /\ V25_userCleanup(c)

\* Two clients that have chosen a language before, one handleStart each, no
\* Cancel while matching and a countdown long enough not to expire.
InitV25Video == InitOf(Duo) /\ \A c \in Duo : selectedLang[c] # Null
NextV25Video ==
  \/ \E c \in Duo, l \in Langs : V25_handleStart(c, l, MaxRuns)
  \/ \E c \in Duo : V25_hangUp(c)
  \/ V25_Chain(Duo, MaxRuns)
  \/ V25_NameTaken(Duo, MaxRuns)
  \/ V25_Session(Duo)
  \/ V25_CallerLeft(Duo)
  \/ V25_Video(Duo)
SpecV25Video == InitV25Video /\ [][NextV25Video]_vars

\* The same, where a message that has arrived is handed to its 'data' handler.
SpecV25VideoLive ==
  SpecV25Video /\ WF_vars(\E d \in Duo : V25_onVideoSignal(d))

\* ============================================================ properties, video v25

\* C18: in a Connected session whose video is already active, a click of the
\* video button asks for no media stream, and neither the click nor an
\* incoming video signal adds a stream, a video signal or a call.
C18_UpgradeIdempotent ==
  [][\A c \in Duo :
       (appState[c] = "CONNECTED" /\ isVideoActive[c])
       => /\ V25_toggleVideo(c) => videoPending' = videoPending
          /\ (V25_toggleVideo(c) \/ V25_onVideoSignal(c))
               => /\ liveStreams' = liveStreams
                  /\ Len(calls'[c]) = Len(calls[c])
                  /\ \A g \in Clients : \A k \in 1..Len(conns[g]) :
                       /\ conns'[g][k].gVid <= conns[g][k].gVid
                       /\ conns'[g][k].hVid <= conns[g][k].hVid]_vars

\* The VIDEO_SIGNAL messages on their way to client d on the connection it holds.
V25_SignalsTo(cs, d) ==
  LET ref == dataConnRef[d] IN
  IF ref = NoRef THEN 0
  ELSE IF ref[3] = "g" THEN cs[ref[1]][ref[2]].gVid ELSE cs[ref[1]][ref[2]].hVid

\* Client d handles a VIDEO_SIGNAL that arrives on the connection it holds.
V25_HearsVideoSignal(d) ==
  /\ dataConnRef[d] # NoRef
  /\ IF dataConnRef[d][3] = "g" THEN V25_onVideoSignalG(d, dataConnRef[d][2])
     ELSE V25_onVideoSignalH(d, dataConnRef[d][1], dataConnRef[d][2])

\* C19: Scenario C.  The video button is accepted only past the gate or with
\* video already active.  When the getUserMedia of a video request of c
\* resolves in a Connected session with d, c's isVideoActive becomes true and
\* exactly one VIDEO_SIGNAL is added, on the connection d holds and towards
\* d; when d handles a signal arriving on the connection it holds, its
\* isVideoActive becomes true; and a signal on its way to d leads to d having
\* isVideoActive, unless d drops the connection first.
C19_ScenarioC ==
  /\ [][\A c \in Duo : \A d \in Duo \ {c} :
          /\ V25_toggleVideo(c) => (elapsedTime[c] >= VIDEO_GATE \/ isVideoActive[c])
          /\ (V25_InSession(c, d) /\ V25_videoGranted(c))
               => /\ isVideoActive'[c]
                  /\ V25_SignalsTo(conns', d) = V25_SignalsTo(conns, d) + 1
                  /\ V25_SignalsTo(conns', c) = V25_SignalsTo(conns, c)
          /\ V25_HearsVideoSignal(d) => isVideoActive'[d]]_vars
  /\ \A d \in Duo :
       (V25_SignalsTo(conns, d) > 0 /\ ~isVideoActive[d])
         ~> (isVideoActive[d] \/ dataConnRef[d] = NoRef)

\* One video request has been made; both ends are Connected on one open data
\* connection, both have isVideoActive, and no signal is left in flight.
C19_Witness ==
  \E c \in Duo : \E d \in Duo \ {c} :
    /\ appState[c] = "CONNECTED" /\ appState[d] = "CONNECTED"
    /\ videoAsked[c] = 1 /\ videoAsked[d] = 0 /\ videoPending[c] = 0
    /\ elapsedTime[c] >= VIDEO_GATE
    /\ isVideoActive[c] /\ isVideoActive[d]
    /\ dataConnRef[c] # NoRef /\ dataConnRef[d] # NoRef
    /\ dataConnRef[c][1] = dataConnRef[d][1] /\ dataConnRef[c][2] = dataConnRef[d][2]
    /\ conns[dataConnRef[c][1]][dataConnRef[c][2]].st = "open"
    /\ V25_SignalsTo(conns, d) = 0

\* a and b are Connected and hold the two ends of one open data connection.
V25_Linked(a, b) ==
  /\ appState[a] = "CONNECTED" /\ appState[b] = "CONNECTED"
  /\ dataConnRef[a] # NoRef /\ dataConnRef[b] # NoRef
  /\ dataConnRef[a][1] = dataConnRef[b][1] /\ dataConnRef[a][2] = dataConnRef[b][2]
  /\ dataConnRef[a][3] # dataConnRef[b][3]
  /\ conns[dataConnRef[a][1]][dataConnRef[a][2]].st = "open"

\* C20: while two clients are Connected on an open data connection, no step
\* other than a hang-up of one of them (so no step of a video upgrade) ends
\* that: both stay Connected on the same open connection, the Peer each holds
\* is not destroyed, and elapsedTime is not reset.
C20_UpgradeKeepsSession ==
  [][\A a \in Duo : \A b \in Duo \ {a} :
       (V25_Linked(a, b) /\ ~V25_hangUp(a) /\ ~V25_hangUp(b))
       => /\ V25_Linked(a, b)'
          /\ dataConnRef'[a] = dataConnRef[a]
          /\ peerRef'[a] = peerRef[a]
          /\ peerRef[a] # 0 => peers'[a][peerRef[a]].st = peers[a][peerRef[a]].st
          /\ elapsedTime'[a] >= elapsedTime[a]]_vars

\* ============================================================ properties, media

\* The streams of client c whose tracks run and that localStreamRef.current
\* does not hold: nothing in the program can stop them any more.
V25_DroppedStreams(c) ==
  liveStreams[c] - (IF localStreamRef[c] = Null THEN 0 ELSE 1)

\* C21: no stream a client has acquired is dropped from localStreamRef while
\* its tracks are live, so a client that is Idle with localStreamRef null has
\* no running track left.
C21_NoStreamDropped ==
  \A c \in Clients :
    /\ V25_DroppedStreams(c) = 0
    /\ (appState[c] = "IDLE" /\ localStreamRef[c] = Null) => liveStreams[c] = 0

\* ============================================================ variant v27
\* src/unnamed/part_002: every client keeps one Peer registered under its
\* device id; a user dials the id of another client, whose app rings.
\* A getUserMedia promise that is not settled is kept in pending[c] as
\* <<x, y, kind>>: the target of a "dial", the call <<x, y>> of an "accept",
\* the isVideoActive (1 or 0) a "toggle" captured.

V27_id(c) == "anyone-id-" \o ToString(c)

\* dataConnRef.current.send(msg): delivered in order when the channel is open.
V27_send(w, ref, msg) ==
  IF ref = NoRef \/ w.conns[ref[1]][ref[2]].st # "open" THEN w
  ELSE IF ref[3] = "g"
    THEN [w EXCEPT !.conns[ref[1]][ref[2]].hQ = Append(@, msg)]
    ELSE [w EXCEPT !.conns[ref[1]][ref[2]].gQ = Append(@, msg)]

\* cleanup: the Peer stays, the ringing call is forgotten but not closed.
V27_cleanup(w, c) ==
  LET w1 == [w EXCEPT !.isBusy[c] = FALSE, !.ringIv[c] = FALSE,
                      !.matchIv[c] = FALSE, !.sessionIv[c] = FALSE]
      w2 == CloseCallRef(w1, w1.callRef[c])
      w3 == CloseConnRef(V27_send(w2, w2.dataConnRef[c], "DISCONNECT"),
                         w2.dataConnRef[c])
      w4 == StopHeldStream(w3, c)
  IN [w4 EXCEPT !.callRef[c] = NoRef, !.dataConnRef[c] = NoRef,
                !.localStreamRef[c] = Null, !.incomingCall[c] = NoRef,
                !.appState[c] = "IDLE", !.elapsedTime[c] = 0,
                !.matchTimer[c] = MATCH_TIMEOUT, !.isVideoActive[c] = FALSE]

\* setupCall(call): a different call held in callRef.current is closed first.
V27_setupCall(w, c, ref) ==
  LET w1 == IF w.callRef[c] # NoRef /\ w.callRef[c] # ref
              THEN CloseCallRef(w, w.callRef[c]) ELSE w
  IN [w1 EXCEPT !.callRef[c] = ref]

\* onConnected: the session interval is created only when
\* timersRef.current.session holds no id yet.
V27_onConnected(w, c) ==
  [w EXCEPT !.isBusy[c] = TRUE, !.appState[c] = "CONNECTED", !.matchIv[c] = FALSE,
            !.sessionIv[c] = @ \/ ~w.sessionSet[c], !.sessionSet[c] = TRUE]

\* The peer at the other end of the call a ref names (call.peer).
V27_callPeer(w, ref) ==
  IF ref[3] = "g" THEN w.calls[ref[1]][ref[2]].hc ELSE ref[1]

\* The effect on mount: new Peer(numericId).
V27_mount(c) ==
  /\ Len(peers[c]) = 0
  /\ Commit(NewPeer(W, c, V27_id(c)))

\* peer 'open': the broker registered the id.
V27_peerOpen(c) ==
  /\ Len(peers[c]) = 1
  /\ peers[c][1].st = "pending"
  /\ Commit([W EXCEPT !.peers[c][1].st = "open", !.peerRef[c] = 1])

\* handleDialerCall up to the await of getUserMedia; the dialer stays open
\* over the Matching screen, below the overlay of a ringing call.
V27_handleDialerCall(c, t) ==
  /\ appState[c] \in {"IDLE", "MATCHING"}
  /\ incomingCall[c] = NoRef
  /\ peerRef[c] # 0
  /\ dials[c] < MaxDial
  /\ Commit([W EXCEPT !.appState[c] = "MATCHING", !.dials[c] = @ + 1,
                      !.pending[c] = Append(@, <<t, 0, "dial">>)])

\* The getUserMedia of handleDialerCall settles: connect and call the target,
\* or cleanup and the microphone message.  The broker answers a connect and
\* a call to an id nobody holds with one 'peer-unavailable' error each.
V27_dialMic(c, ok) ==
  /\ pending[c] # <<>>
  /\ Head(pending[c])[3] = "dial"
  /\ LET t == Head(pending[c])[1]
         w0 == [W EXCEPT !.pending[c] = Tail(@)]
         w1 == NewConn(HoldNewStream(w0, c), c, w0.peerRef[c], V27_id(t))
         w2 == [w1 EXCEPT !.dataConnRef[c] = <<c, Len(w1.conns[c]), "g">>]
         w3 == NewCall(w2, c, w0.peerRef[c], V27_id(t))
         w4 == V27_setupCall(w3, c, <<c, Len(w3.calls[c]), "g">>)
     IN IF ok
          THEN Commit([w4 EXCEPT !.peerErr[c] =
                         IF Registered(W, V27_id(t)) THEN @ ELSE @ + 2])
          ELSE Commit([V27_cleanup(w0, c) EXCEPT !.error[c] = "Mic"])

\* peer 'connection': setupDataConnection(conn), whatever the client is doing.
V27_onConnection(h, g, k) ==
  /\ k \in 1..Len(conns[g])
  /\ conns[g][k].st = "pend"
  /\ conns[g][k].hc = h
  /\ PeerLive(W, h, conns[g][k].hp)
  /\ Commit([W EXCEPT !.conns[g][k].st = "open",
                      !.dataConnRef[h] = <<g, k, "h">>])

\* peer 'call': a call of the session's partner is accepted at once (video
\* upgrade), a call to a busy client is answered without media and closed
\* after 0.5 s, any other call rings.
V27_onCall(h, g, k) ==
  /\ k \in 1..Len(calls[g])
  /\ calls[g][k].stage = "offer"
  /\ calls[g][k].hc = h
  /\ ~calls[g][k].closed
  /\ PeerLive(W, h, calls[g][k].hp)
  /\ IF isBusy[h] /\ callRef[h] # NoRef /\ V27_callPeer(W, callRef[h]) = g
       THEN Commit([W EXCEPT !.calls[g][k].stage = "hmic", !.ringIv[h] = FALSE,
                             !.pending[h] = Append(@, <<g, k, "accept">>)])
     ELSE IF isBusy[h]
       THEN Commit([W EXCEPT !.calls[g][k].stage = "busy"])
     ELSE Commit([W EXCEPT !.calls[g][k].stage = "ringing",
                           !.incomingCall[h] = <<g, k, "h">>,
                           !.ringLeak[h] = IF ringIv[h] THEN @ + 1 ELSE @,
                           !.ringIv[h] = TRUE])

\* The accept button of the ringing overlay, up to the await of getUserMedia.
V27_handleAccept(c) ==
  /\ incomingCall[c] # NoRef
  /\ calls[incomingCall[c][1]][incomingCall[c][2]].stage # "hmic"
  /\ Commit([W EXCEPT !.ringIv[c] = FALSE,
                      !.calls[incomingCall[c][1]][incomingCall[c][2]].stage = "hmic",
                      !.pending[c] = Append(@, <<incomingCall[c][1], incomingCall[c][2],
                                                 "accept">>)])

\* The getUserMedia of handleAccept settles: answer with the stream and
\* setupCall, or a toast.
V27_acceptMic(c, ok) ==
  /\ pending[c] # <<>>
  /\ Head(pending[c])[3] = "accept"
  /\ LET g == Head(pending[c])[1]
         k == Head(pending[c])[2]
         live == ~calls[g][k].closed
         w0 == [W EXCEPT !.pending[c] = Tail(@)]
         w1 == [HoldNewStream(w0, c) EXCEPT
                  !.calls[g][k] = [@ EXCEPT !.stage = "answered",
                                            !.gStream = live, !.hStream = live],
                  !.incomingCall[c] = NoRef]
     IN IF ok
          THEN Commit(V27_setupCall(w1, c, <<g, k, "h">>))
          ELSE Commit([w0 EXCEPT !.calls[g][k].stage =
                         IF calls[g][k].closed THEN "closed" ELSE "ringing"])

\* The reject button of the ringing overlay.
V27_handleReject(c) ==
  /\ incomingCall[c] # NoRef
  /\ LET w1 == V27_send([W EXCEPT !.ringIv[c] = FALSE], dataConnRef[c], "REJECTED")
     IN Commit([CloseCallRef(w1, incomingCall[c]) EXCEPT !.incomingCall[c] = NoRef])

\* conn 'data' at the end `side` of connection <<g, k>>, held by client c.
V27_onData(c, g, k, side) ==
  /\ k \in 1..Len(conns[g])
  /\ c = IF side = "g" THEN g ELSE conns[g][k].hc
  /\ LET q == IF side = "g" THEN conns[g][k].gQ ELSE conns[g][k].hQ
         w1 == IF side = "g" THEN [W EXCEPT !.conns[g][k].gQ = Tail(@)]
               ELSE [W EXCEPT !.conns[g][k].hQ = Tail(@)]
     IN /\ q # <<>>
        /\ IF Head(q) \in {"BUSY", "REJECTED"}
             THEN Commit([V27_cleanup(w1, c) EXCEPT
                            !.error[c] = IF Head(q) = "BUSY" THEN "Busy" ELSE "Rejected",
                            !.appState[c] = "ERROR"])
           ELSE IF Head(q) = "DISCONNECT" THEN Commit(V27_cleanup(w1, c))
           ELSE Commit([w1 EXCEPT !.isVideoActive[c] = TRUE])

\* conn 'close' at the end `side` of connection <<g, k>>, after the data sent
\* before it.
V27_connClose(c, g, k, side) ==
  /\ k \in 1..Len(conns[g])
  /\ c = IF side = "g" THEN g ELSE conns[g][k].hc
  /\ IF side = "g" THEN conns[g][k].gClose /\ conns[g][k].gQ = <<>>
     ELSE conns[g][k].hClose /\ conns[g][k].hQ = <<>>
  /\ Commit(V27_cleanup([W EXCEPT !.conns[g][k].gClose = (@ /\ side # "g"),
                                  !.conns[g][k].hClose = (@ /\ side # "h")], c))

\* call 'close' at the end `side` of call <<g, k>>: the callee has a handler
\* once handleAccept has run setupCall.
V27_callClose(c, g, k, side) ==
  /\ k \in 1..Len(calls[g])
  /\ c = IF side = "g" THEN g ELSE calls[g][k].hc
  /\ IF side = "g" THEN calls[g][k].gClose ELSE calls[g][k].hClose
  /\ LET w1 == [W EXCEPT !.calls[g][k].gClose = (@ /\ side # "g"),
                         !.calls[g][k].hClose = (@ /\ side # "h")]
     IN IF side = "g" \/ calls[g][k].stage = "answered"
          THEN Commit(V27_cleanup(w1, c)) ELSE Commit(w1)

\* call 'stream' at the end `side` of call <<g, k>>: the caller's stream may
\* carry video, the answer of handleAccept is made with the isVideoActive of
\* the first render.
V27_onStream(c, g, k, side) ==
  /\ k \in 1..Len(calls[g])
  /\ c = IF side = "g" THEN g ELSE calls[g][k].hc
  /\ IF side = "g" THEN calls[g][k].gStream ELSE calls[g][k].hStream
  /\ Commit(V27_onConnected(
       [W EXCEPT !.calls[g][k].gStream = (@ /\ side # "g"),
                 !.calls[g][k].hStream = (@ /\ side # "h"),
                 !.isVideoActive[c] = @ \/ (side = "h" /\ calls[g][k].vid)], c))

\* peer 'error' of type peer-unavailable.
V27_peerUnavailable(c) ==
  /\ peerErr[c] > 0
  /\ Commit([V27_cleanup([W EXCEPT !.peerErr[c] = @ - 1], c) EXCEPT
               !.error[c] = "Unavailable", !.appState[c] = "ERROR"])

\* The cancel, hang-up and retry buttons all call cleanup.
V27_userCleanup(c) ==
  /\ appState[c] \in {"MATCHING", "CONNECTED", "ERROR"}
  /\ Commit(V27_cleanup(W, c))

\* The video button of the Connected screen, up to the await of getUserMedia.
V27_toggleVideo(c) ==
  /\ appState[c] = "CONNECTED"
  /\ videoAsked[1] + videoAsked[2] + videoAsked[3] < MaxVideo
  /\ Commit([W EXCEPT !.videoAsked[c] = @ + 1,
                      !.pending[c] = Append(@, <<IF isVideoActive[c] THEN 1 ELSE 0, 0,
                                                 "toggle">>)])

\* The getUserMedia of toggleVideo settles.  With video captured as off the
\* new stream carries video, the partner is told and called again with it;
\* with video captured as on the new stream is audio only, and the video
\* tracks toggleVideo stops are those of that new stream.  A failure is a toast.
V27_toggleMic(c, ok) ==
  /\ pending[c] # <<>>
  /\ Head(pending[c])[3] = "toggle"
  /\ LET w0 == [W EXCEPT !.pending[c] = Tail(@)]
         w1 == HoldNewStream(w0, c)
         up == V27_send([w1 EXCEPT !.localStreamRef[c] = "av",
                                   !.videoTracks[c] = @ + 1],
                        w1.dataConnRef[c], "VIDEO_SIGNAL")
         t == V27_id(V27_callPeer(up, up.callRef[c]))
         w2 == NewCall(up, c, up.peerRef[c], t)
         k == Len(w2.calls[c])
         w3 == V27_setupCall([w2 EXCEPT !.calls[c][k].vid = TRUE,
                                        !.peerErr[c] = IF Registered(up, t)
                                                         THEN @ ELSE @ + 1],
                             c, <<c, k, "g">>)
     IN IF ~ok THEN Commit(w0)
        ELSE IF Head(pending[c])[1] = 1
          THEN Commit([w1 EXCEPT !.isVideoActive[c] = FALSE])
        ELSE IF up.callRef[c] # NoRef /\ up.peerRef[c] # 0
          THEN Commit([w3 EXCEPT !.isVideoActive[c] = TRUE])
        ELSE Commit([up EXCEPT !.isVideoActive[c] = TRUE])

\* The dialer, the ringing overlay, and the events of the Peers, connections
\* and calls of the clients CS.
V27_Dialer(CS) ==
  \E c \in CS :
    \/ V27_mount(c)
    \/ V27_peerOpen(c)
    \/ \E t \in CS \ {c} : V27_handleDialerCall(c, t)
    \/ V27_handleAccept(c)
    \/ V27_handleReject(c)
    \/ V27_userCleanup(c)
    \/ V27_peerUnavailable(c)
    \/ \E ok \in BOOLEAN :
         \/ V27_dialMic(c, ok)
         \/ V27_acceptMic(c, ok)
    \/ \E g \in CS, k \in Idx :
         \/ V27_onConnection(c, g, k)
         \/ V27_onCall(c, g, k)
         \/ \E side \in {"g", "h"} :
              \/ V27_onData(c, g, k, side)
              \/ V27_connClose(c, g, k, side)
              \/ V27_callClose(c, g, k, side)
              \/ V27_onStream(c, g, k, side)

\* Two clients with a dialer.
InitV27 == InitOf({})
NextV27 == V27_Dialer(Duo)
SpecV27 == InitV27 /\ [][NextV27]_vars

\* The hang-up button of the Connected screen.
V27_hangUp(c) == appState[c] = "CONNECTED" /\ V27_userCleanup(c)

\* Two clients whose microphone requests are granted: client 1 dials client 2,
\* who accepts, and both use the video button.
NextV27Video ==
  \E c \in Duo :
    \/ V27_mount(c)
    \/ V27_peerOpen(c)
    \/ V27_handleDialerCall(1, 2)
    \/ V27_handleAccept(c)
    \/ V27_hangUp(c)
    \/ V27_peerUnavailable(c)
    \/ V27_dialMic(c, TRUE)
    \/ V27_acceptMic(c, TRUE)
    \/ V27_toggleVideo(c)
    \/ \E ok \in BOOLEAN : V27_toggleMic(c, ok)
    \/ \E g \in Duo, k \in Idx :
         \/ V27_onConnection(c, g, k)
         \/ V27_onCall(c, g, k)
         \/ \E side \in {"g", "h"} :
              \/ V27_onData(c, g, k, side)
              \/ V27_callClose(c, g, k, side)
              \/ V27_onStream(c, g, k, side)
SpecV27Video == InitV27 /\ [][NextV27Video]_vars

\* ============================================================ properties, v27

\* C22: when the getUserMedia of a toggleVideo made with video active
\* resolves in a Connected session, the local video track is stopped,
\* isVideoActive becomes false, and the local audio, the call and the data
\* connection are left as they were.
C22_Downgrade ==
  [][\A c \in Duo :
       ( /\ appState[c] = "CONNECTED"
         /\ pending[c] # <<>>
         /\ Head(pending[c]) = <<1, 0, "toggle">>
         /\ V27_toggleMic(c, TRUE) )
       => /\ videoTracks'[c] = 0
          /\ ~isVideoActive'[c]
          /\ localStreamRef'[c] # Null
          /\ callRef'[c] = callRef[c]
          /\ dataConnRef'[c] = dataConnRef[c]
          /\ calls' = calls
          /\ conns' = conns]_vars

\* ============================================================ video gate, v25

\* The video button while the gate holds: a toast with the seconds that remain.
V25_toggleVideoGated(c) ==
  /\ appState[c] = "CONNECTED"
  /\ V25_videoGated(c)
  /\ toast[c] = -1
  /\ Commit([W EXCEPT !.toast[c] = VIDEO_GATE - elapsedTime[c]])

\* The setTimeout of the toast fires: setToast(null).
V25_toastTimeout(c) ==
  /\ toast[c] # -1
  /\ Commit([W EXCEPT !.toast[c] = -1])

\* The session with the video button, and the clicks the gate turns away.
NextV25Gate ==
  \/ NextV25Video
  \/ \E c \in Duo : V25_toggleVideoGated(c) \/ V25_toastTimeout(c)
SpecV25Gate == InitV25Video /\ [][NextV25Gate]_vars

\* C23: while elapsedTime is below the gate and video is inactive, a click of
\* the video button is never accepted: it asks for no media, sends no signal,
\* places no call, leaves isVideoActive false, and the toast names the gate
\* minus elapsedTime seconds.
C23_GateRejectsLocally ==
  [][\A c \in Duo :
       (appState[c] = "CONNECTED" /\ elapsedTime[c] < VIDEO_GATE /\ ~isVideoActive[c])
       => /\ ~V25_toggleVideo(c)
          /\ V25_toggleVideoGated(c)
               => /\ toast'[c] = VIDEO_GATE - elapsedTime[c]
                  /\ videoPending' = videoPending
                  /\ liveStreams' = liveStreams
                  /\ conns' = conns
                  /\ calls' = calls
                  /\ ~isVideoActive'[c]]_vars

\* A Connected client below the gate has clicked: the toast shows the seconds
\* that remain, and it holds the one stream of the pairing and no request.
C23_Witness ==
  \E c \in Duo :
    /\ appState[c] = "CONNECTED"
    /\ elapsedTime[c] < VIDEO_GATE
    /\ toast[c] = VIDEO_GATE - elapsedTime[c]
    /\ ~isVideoActive[c]
    /\ videoPending[c] = 0 /\ videoAsked[c] = 0
    /\ liveStreams[c] = 1

\* ============================================================ session clock, v25

\* Three clients that have chosen a language before, one handleStart each, no
\* Cancel while matching, and the session clock.
NextV25TrioClock ==
  \/ \E c \in Clients, l \in Langs : V25_handleStart(c, l, MaxRuns)
  \/ \E c \in Clients : V25_hangUp(c) \/ V25_sessionTick(c)
  \/ V25_Chain(Clients, MaxRuns)
  \/ V25_NameTaken(Clients, MaxRuns)
  \/ V25_Session(Clients)
  \/ V25_CallerLeft(Clients)
SpecV25TrioClock == InitV25Trio /\ [][NextV25TrioClock]_vars

\* C24: elapsedTime is 0 in every client that is not Connected (Idle, Matching
\* and handshake, and after cleanup), and it advances only in a client whose
\* session interval a remote stream event has started.
C24_ClockFromStream ==
  /\ \A c \in Clients : appState[c] # "CONNECTED" => elapsedTime[c] = 0
  /\ [][\A c \in Clients :
          elapsedTime'[c] > elapsedTime[c] => (sessionIv[c] /\ appState[c] = "CONNECTED")]_vars

\* ============================================================ stale chains, v25

\* Client 1 may cancel and start again while its first chain is pending;
\* client 2 starts once and never cancels while matching.
NextV25Again ==
  \/ V25_User({1}, MaxRuns + 1)
  \/ \E l \in Langs : V25_handleStart(2, l, MaxRuns)
  \/ V25_hangUp(2)
  \/ V25_Chain(Duo, MaxRuns + 1)
  \/ V25_NameTaken(Duo, MaxRuns + 1)
  \/ V25_Session(Duo)
  \/ V25_CallerLeft(Duo)
SpecV25Again == InitV25Video /\ [][NextV25Again]_vars

\* C25: in a Connected client a timer that calls startMatching, or becomeHost
\* after its probe, changes nothing of the client: no Peer is created or
\* destroyed, no name is registered, and peerRef, the session's refs, isBusy
\* and appState are as before.
C25_NoMatchingWhileConnected ==
  [][\A c \in Duo : \A r \in 1..(MaxRuns + 1) :
       ( /\ appState[c] = "CONNECTED"
         /\ \/ V25_startTimer(c, r)
            \/ V25_hostWaitTimer(c, r)
            \/ V25_connectionTimeout(c, r) )
       => /\ Len(peers'[c]) = Len(peers[c])
          /\ \A i \in 1..Len(peers[c]) : peers'[c][i].st = peers[c][i].st
          /\ peerRef'[c] = peerRef[c]
          /\ callRef'[c] = callRef[c]
          /\ dataConnRef'[c] = dataConnRef[c]
          /\ isBusy'[c] = isBusy[c]
          /\ appState'[c] = appState[c]]_vars

\* ============================================================ variant App.tsx
\* src/App.tsx, lines 1-541: the dialer of v27 with no ringing overlay.  The
\* 'call' handler of the device Peer answers every call as soon as its
\* getUserMedia resolves; handleDialerCall, setupDataConnection, setupCall and
\* onConnected read as in src/unnamed/part_002, so V27_handleDialerCall,
\* V27_onConnection, V27_setupCall and V27_onStream stand for them.  No client
\* of a dialled session sends a control message, and isVideoActive, on which
\* the mount effect depends, stays false.

\* cleanup: nothing is sent, the Peer stays.
App_cleanup(w, c) ==
  LET w1 == [w EXCEPT !.isBusy[c] = FALSE, !.matchIv[c] = FALSE,
                      !.sessionIv[c] = FALSE]
      w2 == CloseCallRef(w1, w1.callRef[c])
      w3 == CloseConnRef(w2, w2.dataConnRef[c])
      w4 == StopHeldStream(w3, c)
  IN [w4 EXCEPT !.callRef[c] = NoRef, !.dataConnRef[c] = NoRef,
                !.localStreamRef[c] = Null,
                !.appState[c] = "IDLE", !.elapsedTime[c] = 0,
                !.matchTimer[c] = MATCH_TIMEOUT, !.isVideoActive[c] = FALSE]

\* The getUserMedia of handleDialerCall settles.
App_dialMic(c, ok) ==
  /\ pending[c] # <<>>
  /\ Head(pending[c])[3] = "dial"
  /\ LET t == Head(pending[c])[1]
         w0 == [W EXCEPT !.pending[c] = Tail(@)]
         w1 == NewConn(HoldNewStream(w0, c), c, w0.peerRef[c], V27_id(t))
         w2 == [w1 EXCEPT !.dataConnRef[c] = <<c, Len(w1.conns[c]), "g">>]
         w3 == NewCall(w2, c, w0.peerRef[c], V27_id(t))
         w4 == V27_setupCall(w3, c, <<c, Len(w3.calls[c]), "g">>)
     IN IF ok
          THEN Commit([w4 EXCEPT !.peerErr[c] =
                         IF Registered(W, V27_id(t)) THEN @ ELSE @ + 2])
          ELSE Commit([App_cleanup(w0, c) EXCEPT !.error[c] = "Mic"])

\* peer 'call', up to the await of getUserMedia: no question is put to the user.
App_onCall(h, g, k) ==
  /\ k \in 1..Len(calls[g])
  /\ calls[g][k].stage = "offer"
  /\ calls[g][k].hc = h
  /\ ~calls[g][k].closed
  /\ PeerLive(W, h, calls[g][k].hp)
  /\ Commit([W EXCEPT !.calls[g][k].stage = "hmic",
                      !.pending[h] = Append(@, <<g, k, "accept">>)])

\* The getUserMedia of the 'call' handler settles: answer with the stream and
\* setupCall, or an error on the console.
App_answerMic(c, ok) ==
  /\ pending[c] # <<>>
  /\ Head(pending[c])[3] = "accept"
  /\ LET g == Head(pending[c])[1]
         k == Head(pending[c])[2]
         live == ~calls[g][k].closed
         w0 == [W EXCEPT !.pending[c] = Tail(@)]
         w1 == [HoldNewStream(w0, c) EXCEPT
                  !.calls[g][k] = [@ EXCEPT !.stage = "answered",
                                            !.gStream = live, !.hStream = live]]
     IN IF ok
          THEN Commit(V27_setupCall(w1, c, <<g, k, "h">>))
          ELSE Commit([w0 EXCEPT !.calls[g][k].stage =
                         IF calls[g][k].closed THEN "closed" ELSE "denied"])

\* conn 'close' at the end `side` of connection <<g, k>>.
App_connClose(c, g, k, side) ==
  /\ k \in 1..Len(conns[g])
  /\ c = IF side = "g" THEN g ELSE conns[g][k].hc
  /\ IF side = "g" THEN conns[g][k].gClose ELSE conns[g][k].hClose
  /\ Commit(App_cleanup([W EXCEPT !.conns[g][k].gClose = (@ /\ side # "g"),
                                  !.conns[g][k].hClose = (@ /\ side # "h")], c))

\* call 'close' at the end `side` of call <<g, k>>: the callee has a handler
\* once it has answered.
App_callClose(c, g, k, side) ==
  /\ k \in 1..Len(calls[g])
  /\ c = IF side = "g" THEN g ELSE calls[g][k].hc
  /\ IF side = "g" THEN calls[g][k].gClose ELSE calls[g][k].hClose
  /\ LET w1 == [W EXCEPT !.calls[g][k].gClose = (@ /\ side # "g"),
                         !.calls[g][k].hClose = (@ /\ side # "h")]
     IN IF side = "g" \/ calls[g][k].stage = "answered"
          THEN Commit(App_cleanup(w1, c)) ELSE Commit(w1)

\* peer 'error' of type peer-unavailable: the message and the error screen,
\* with no cleanup.
App_peerUnavailable(c) ==
  /\ peerErr[c] > 0
  /\ Commit([W EXCEPT !.peerErr[c] = @ - 1, !.error[c] = "Unavailable",
                      !.appState[c] = "ERROR"])

\* The cancel, hang-up and retry buttons all call cleanup.
App_userCleanup(c) ==
  /\ appState[c] \in {"MATCHING", "CONNECTED", "ERROR"}
  /\ Commit(App_cleanup(W, c))

\* Two clients with the dialer of src/App.tsx.
NextApp ==
  \E c \in Duo :
    \/ V27_mount(c)
    \/ V27_peerOpen(c)
    \/ \E t \in Duo \ {c} : V27_handleDialerCall(c, t)
    \/ App_userCleanup(c)
    \/ App_peerUnavailable(c)
    \/ \E ok \in BOOLEAN :
         \/ App_dialMic(c, ok)
         \/ App_answerMic(c, ok)
    \/ \E g \in Duo, k \in Idx :
         \/ V27_onConnection(c, g, k)
         \/ App_onCall(c, g, k)
         \/ \E side \in {"g", "h"} :
              \/ App_connClose(c, g, k, side)
              \/ App_callClose(c, g, k, side)
              \/ V27_onStream(c, g, k, side)
SpecApp == InitV27 /\ [][NextApp]_vars

\* ============================================================ properties, refusals

\* C26: the step in which a client handles a BUSY or REJECTED message leaves
\* it torn down as by cleanup (no call, no data connection, no held stream,
\* no match interval, not busy), on the error screen with the cause of the
\* refusal, and makes no new Peer, connection or call.
C26_RefusalSurfaced ==
  [][\A c \in Clients :
       ( \/ \E k \in Idx :
              /\ k <= Len(conns[c])
              /\ conns[c][k].busyMsg /\ conns[c][k].gatt
              /\ V25_onData(c, k)
         \/ \E g \in Clients, k \in Idx, side \in {"g", "h"} :
              /\ k <= Len(conns[g])
              /\ LET q == IF side = "g" THEN conns[g][k].gQ ELSE conns[g][k].hQ
                 IN q # <<>> /\ Head(q) \in {"BUSY", "REJECTED"}
              /\ V27_onData(c, g, k, side) )
       => /\ callRef'[c] = NoRef
          /\ dataConnRef'[c] = NoRef
          /\ localStreamRef'[c] = Null
          /\ ~matchIv'[c]
          /\ ~isBusy'[c]
          /\ appState'[c] = "ERROR"
          /\ error'[c] \in {"Busy", "Rejected"}
          /\ Len(peers'[c]) = Len(peers[c])
          /\ Len(conns'[c]) = Len(conns[c])
          /\ Len(calls'[c]) = Len(calls[c])]_vars

\* C27: the step that handles the 'peer-unavailable' error of a dial leaves
\* the client on the error screen with the target-unavailable cause and torn
\* down (no call, no data connection, no held or running stream), and makes
\* no connection or call.
C27_UnavailableTarget ==
  [][\A c \in Duo :
       (peerErr[c] > 0 /\ peerErr'[c] < peerErr[c])
       => /\ appState'[c] = "ERROR"
          /\ error'[c] = "Unavailable"
          /\ callRef'[c] = NoRef
          /\ dataConnRef'[c] = NoRef
          /\ localStreamRef'[c] = Null
          /\ liveStreams'[c] = 0
          /\ Len(conns'[c]) = Len(conns[c])
          /\ Len(calls'[c]) = Len(calls[c])]_vars

\* ============================================================ properties, incoming calls

\* The getUserMedia requests a client has made for incoming calls and that
\* have not settled.
AcceptsPending(q) == Len(SelectSeq(q, LAMBDA x : x[3] = "accept"))

\* C28: a client requests media for an incoming call only in the step of the
\* user's accept, or for a further call of the partner of its session; the
\* step that starts the ringing and the step of the user's reject request no
\* media and leave localStreamRef and the running streams as they were.
C28_NoMediaBeforeAccept ==
  [][\A c \in Duo :
       /\ AcceptsPending(pending'[c]) > AcceptsPending(pending[c])
            => \/ incomingCall[c] # NoRef /\ V27_handleAccept(c)
               \/ isBusy[c]
       /\ ( \/ incomingCall[c] = NoRef /\ incomingCall'[c] # NoRef
            \/ incomingCall[c] # NoRef /\ V27_handleReject(c) )
            => /\ pending'[c] = pending[c]
               /\ localStreamRef'[c] = localStreamRef[c]
               /\ liveStreams'[c] = liveStreams[c]]_vars

\* The steps of v27 that no user takes: timers, promises and the events of
\* the Peers, connections and calls.
V27_Machine ==
  \E c \in Duo :
    \/ V27_mount(c)
    \/ V27_peerOpen(c)
    \/ V27_peerUnavailable(c)
    \/ \E ok \in BOOLEAN :
         \/ V27_dialMic(c, ok)
         \/ V27_acceptMic(c, ok)
    \/ \E g \in Duo, k \in Idx :
         \/ V27_onConnection(c, g, k)
         \/ V27_onCall(c, g, k)
         \/ \E side \in {"g", "h"} :
              \/ V27_onData(c, g, k, side)
              \/ V27_connClose(c, g, k, side)
              \/ V27_callClose(c, g, k, side)
              \/ V27_onStream(c, g, k, side)

\* The dialer where every pending event is handled in the end; the users
\* click or not as they like.
SpecV27Live == SpecV27 /\ WF_vars(V27_Machine)

\* C29: a ringing call (incomingCall set, ring interval running) does not
\* ring for ever: with no accept and no reject the ringing stops.
C29_RingingStops ==
  \A c \in Duo :
    (incomingCall[c] # NoRef /\ ringIv[c])
      ~> ~(incomingCall[c] # NoRef /\ ringIv[c])

\* ============================================================ properties, microphone

\* C30: the step in which getUserMedia is refused during a pairing, at the
\* Guest or at the Host, leaves the client as cleanup does and out of
\* Matching: no Peer of its own alive, so no slot name registered, peerRef,
\* callRef, dataConnRef and localStreamRef null, and no match interval.
C30_MicDeniedTearsDown ==
  [][\A c \in Duo :
       ( \/ \E r \in 1..Len(runs[c]) : V25_guestMicDenied(c, r)
         \/ \E g \in Duo, k \in Idx : V25_hostMicDenied(c, g, k) )
       => /\ appState'[c] # "MATCHING"
          /\ \A i \in 1..Len(peers'[c]) : peers'[c][i].st \notin {"pending", "open"}
          /\ peerRef'[c] = 0
          /\ callRef'[c] = NoRef
          /\ dataConnRef'[c] = NoRef
          /\ localStreamRef'[c] = Null
          /\ ~matchIv'[c]]_vars

\* ============================================================ properties, transient failures

\* C31: the step that handles the failure of a Guest's connect to a slot
\* (the broker's peer-unavailable for a name whose Host has left) keeps the
\* client in Matching with no error cause and leaves it with a new slot
\* attempt: a Peer of its own that is pending or open.
C31_FailedConnectRetries ==
  [][\A c \in Duo : \A r \in 1..Len(runs[c]) :
       ( /\ runs[c][r].pc = "jerr"
         /\ appState[c] = "MATCHING"
         /\ V5_callerError(c, r) )
       => /\ appState'[c] = "MATCHING"
          /\ error'[c] = error[c]
          /\ peerRef'[c] # 0
          /\ peers'[c][peerRef'[c]].st \in {"pending", "open"}]_vars

\* ============================================================ properties, slots

\* The names of the slots 1..MAX_SLOTS, as the builds spell them.
SlotNames ==
  {V5_targetId(s) : s \in 1..MAX_SLOTS}
    \cup {V25_startMatching_roomId(l, s) : l \in Langs, s \in 1..MAX_SLOTS}

\* C32: every name a client registers or connects to is a random id or the
\* name of a slot in 1..MAX_SLOTS, and every chain is on a slot of that
\* range, however often the chain has moved on to the next slot.
C32_SlotIndexInRange ==
  \A c \in Clients :
    /\ \A i \in 1..Len(peers[c]) :
         peers[c][i].st \in {"pending", "open"}
           => peers[c][i].name \in SlotNames \cup {Rand}
    /\ \A k \in 1..Len(conns[c]) :
         conns[c][k].st \in {"pend", "open"} => conns[c][k].name \in SlotNames
    /\ \A r \in 1..Len(runs[c]) :
         runs[c][r].pc \notin {"over", "dead"} => runs[c][r].slot \in 1..MAX_SLOTS

\* A chain that started on the last slot has moved on and holds slot 1.
C32_Witness ==
  \E c \in Duo :
    /\ Len(runs[c]) = 1 /\ Len(peers[c]) = 2
    /\ runs[c][1].slot = 1
    /\ peers[c][2].name = V5_targetId(1)
    /\ peers[c][2].st = "open"

\* ============================================================ three dialers, v27

\* Three clients whose microphone requests are granted: clients 1 and 3 may
\* dial client 2, who accepts or rejects.
NextV27Trio ==
  \E c \in Clients :
    \/ V27_mount(c)
    \/ V27_peerOpen(c)
    \/ V27_handleDialerCall(1, 2)
    \/ V27_handleDialerCall(3, 2)
    \/ V27_handleAccept(c)
    \/ V27_handleReject(c)
    \/ V27_hangUp(c)
    \/ V27_peerUnavailable(c)
    \/ V27_dialMic(c, TRUE)
    \/ V27_acceptMic(c, TRUE)
    \/ \E g \in Clients, k \in Idx :
         \/ V27_onConnection(c, g, k)
         \/ V27_onCall(c, g, k)
         \/ \E side \in {"g", "h"} :
              \/ V27_onData(c, g, k, side)
              \/ V27_connClose(c, g, k, side)
              \/ V27_callClose(c, g, k, side)
              \/ V27_onStream(c, g, k, side)
SpecV27Trio == InitV27 /\ [][NextV27Trio]_vars

\* Client c is Connected and its session's call is with client p.
V27_InSessionWith(c, p) ==
  /\ appState[c] = "CONNECTED"
  /\ callRef[c] # NoRef
  /\ p = V27_callPeer(W, callRef[c])

\* C33: while a client is Connected with a partner, a data connection or a
\* call that arrives from another client leaves its dataConnRef and callRef
\* as they were, and the close of that other client's connection leaves the
\* client Connected with its call and data connection.
C33_StrangerLeavesSession ==
  [][\A c \in Clients, p \in Clients, q \in Clients : \A k \in Idx :
       (V27_InSessionWith(c, p) /\ q # p /\ q # c)
       => /\ (V27_onConnection(c, q, k) \/ V27_onCall(c, q, k))
               => /\ dataConnRef'[c] = dataConnRef[c]
                  /\ callRef'[c] = callRef[c]
          /\ V27_connClose(c, q, k, "h")
               => /\ appState'[c] = "CONNECTED"
                  /\ callRef'[c] = callRef[c]]_vars

\* REJECTED is on its way to client g on one of the connections it made.
V27_RejectedOnItsWay(w, g) ==
  \E k \in 1..Len(w.conns[g]) :
    \E n \in 1..Len(w.conns[g][k].gQ) : w.conns[g][k].gQ[n] = "REJECTED"

\* C34: the step of handleReject on the ringing call of client g puts REJECTED
\* on its way to g, stops the ringing, forgets the incoming call, and
\* requests and acquires no media; the step in which g handles REJECTED
\* leaves g on the error screen with the call-rejected cause.
C34_RejectReachesCaller ==
  [][\A c \in Duo, g \in Duo :
       /\ ( /\ incomingCall[c] # NoRef
            /\ incomingCall[c][1] = g
            /\ V27_handleReject(c) )
          => /\ V27_RejectedOnItsWay(W', g)
             /\ ~ringIv'[c]
             /\ incomingCall'[c] = NoRef
             /\ pending'[c] = pending[c]
             /\ liveStreams'[c] = liveStreams[c]
       /\ \A k \in Idx :
            ( /\ k <= Len(conns[g])
              /\ conns[g][k].gQ # <<>>
              /\ Head(conns[g][k].gQ) = "REJECTED"
              /\ V27_onData(g, g, k, "g") )
            => appState'[g] = "ERROR" /\ error'[g] = "Rejected"]_vars

\* ============================================================ video, v5
\* src/unnamed/part_004: enableVideo and the SIGNAL_VIDEO_ENABLE message.

\* The count of signals saturates one past the most a request can account for.
MaxSignals == 2 * MaxVideo + 1

\* One tick of the interval the 'stream' handler created.
V5_sessionTick(c) ==
  /\ sessionIv[c]
  /\ elapsedTime[c] < VIDEO_GATE
  /\ Commit([W EXCEPT !.elapsedTime[c] = @ + 1])

\* The video button, rendered on the Connected screen while showVideoButton
\* holds and isVideoActive does not, up to the await of getUserMedia in enableVideo.
V5_enableVideo(c) ==
  /\ appState[c] = "CONNECTED"
  /\ elapsedTime[c] >= VIDEO_GATE
  /\ ~isVideoActive[c]
  /\ videoAsked[1] + videoAsked[2] + videoAsked[3] < MaxVideo
  /\ Commit([W EXCEPT !.videoAsked[c] = @ + 1, !.videoPending[c] = @ + 1])

\* dataConnRef.current.send({ type: 'SIGNAL_VIDEO_ENABLE' }) when the ref is
\* set: the message travels when the channel is open.
V5_sendVideoSignal(w, c) ==
  LET ref == w.dataConnRef[c]
      w1 == [w EXCEPT !.videoSent[c] = IF @ < MaxSignals THEN @ + 1 ELSE @]
  IN IF ref = NoRef THEN w
     ELSE IF w.conns[ref[1]][ref[2]].st # "open" THEN w1
     ELSE IF ref[3] = "g"
       THEN [w1 EXCEPT !.conns[ref[1]][ref[2]].hVid = @ + 1]
       ELSE [w1 EXCEPT !.conns[ref[1]][ref[2]].gVid = @ + 1]

\* The call callRef.current holds is open at this end: it was answered and
\* this end has neither closed it nor handled its 'close'.
V5_callOpenHere(w, ref) ==
  LET cl == w.calls[ref[1]][ref[2]] IN
  /\ cl.stage = "answered"
  /\ \/ ~cl.closed
     \/ ref[3] = "g" /\ cl.gClose
     \/ ref[3] = "h" /\ cl.hClose

\* A callRef.current.close() that runs no handler of this end.
V5_closeHeldCall_Quiet(w, c) ==
  CloseCallRef(w, w.callRef[c])

\* callRef.current.close() in enableVideo: an open call emits 'close' at once
\* and the handler handleCall attached to it, cleanup, runs.
V5_closeHeldCall(w, c) ==
  IF V5_callOpenHere(w, w.callRef[c])
    THEN V5_cleanup(w, c)
    ELSE CloseCallRef(w, w.callRef[c])

\* The re-call of enableVideo.  After a close that ran cleanup peerRef.current
\* is null and peerRef.current.call throws: the catch reports the camera.
\* Otherwise the new call goes to callRef.current.peer (the room name for the
\* end that placed the call, the caller's Peer, which handles no 'call', for
\* the end that answered it) and handleCall takes it.
V5_recall(w, c) ==
  LET ref == w.callRef[c]
      old == w.calls[ref[1]][ref[2]]
      w1 == V5_closeHeldCall(w, c)
      w2 == IF ref[3] = "g" /\ old.hc # 0
              THEN NewCall(w1, c, w1.peerRef[c], w.peers[old.hc][old.hp].name)
              ELSE NewCall(w1, c, w1.peerRef[c], "-")
  IN IF ref = NoRef \/ w.peerRef[c] = 0
       THEN [w EXCEPT !.isVideoActive[c] = TRUE]
     ELSE IF w1.peerRef[c] = 0
       THEN [w1 EXCEPT !.error[c] = "Camera"]
     ELSE [V5_handleCall(w2, c, c, Len(w2.calls[c]), "g")
             EXCEPT !.isVideoActive[c] = TRUE]

\* getUserMedia({ audio, video }) resolves in enableVideo.
V5_videoGranted(c) ==
  /\ videoPending[c] > 0
  /\ Len(calls[c]) < MaxPeers
  /\ LET w1 == HoldNewStream(StopHeldStream([W EXCEPT !.videoPending[c] = @ - 1], c), c)
     IN Commit(V5_recall(V5_sendVideoSignal(w1, c), c))

\* getUserMedia rejects in enableVideo.
V5_videoDenied(c) ==
  /\ videoPending[c] > 0
  /\ Commit([W EXCEPT !.videoPending[c] = @ - 1, !.error[c] = "Camera"])

\* conn 'data' with a SIGNAL_VIDEO_ENABLE at the end that connected.  The
\* handler tests the isVideoActive of the render that attached it, the render
\* of the Start click: false for a first Start after load.
V5_onVideoSignalG(g, k) ==
  /\ k \in 1..Len(conns[g])
  /\ conns[g][k].gVid > 0
  /\ LET w1 == [W EXCEPT !.conns[g][k].gVid = @ - 1] IN
     IF conns[g][k].gatt
       THEN Commit([w1 EXCEPT !.videoPending[g] = @ + 1])
       ELSE Commit(w1)

\* The same at the end that was connected to.
V5_onVideoSignalH(h, g, k) ==
  /\ k \in 1..Len(conns[g])
  /\ conns[g][k].hc = h
  /\ conns[g][k].hVid > 0
  /\ LET w1 == [W EXCEPT !.conns[g][k].hVid = @ - 1] IN
     IF conns[g][k].hmode = "attached"
       THEN Commit([w1 EXCEPT !.videoPending[h] = @ + 1])
       ELSE Commit(w1)

V5_Video(CS) ==
  \E c \in CS :
    \/ V5_sessionTick(c)
    \/ V5_enableVideo(c)
    \/ V5_videoGranted(c)
    \/ V5_videoDenied(c)
    \/ \E k \in Idx :
         \/ V5_onVideoSignalG(c, k)
         \/ \E g \in CS : V5_onVideoSignalH(c, g, k)

\* Two clients, one Start each after load, with the video button.
InitV5Video == InitOf({})
NextV5Video ==
  \/ \E c \in Duo, s \in 1..MAX_SLOTS : V5_start(c, s, 1)
  \/ \E c \in Duo : V5_userCleanup(c)
  \/ V5_Chain(Duo, 1)
  \/ V5_Session(Duo)
  \/ V5_Video(Duo)
SpecV5Video == InitV5Video /\ [][NextV5Video]_vars

\* ============================================================ properties, video signals

SignalsSent == videoSent[1] + videoSent[2] + videoSent[3]
VideoClicks == videoAsked[1] + videoAsked[2] + videoAsked[3]

\* C35: one press of the video button causes a bounded exchange: the signal of
\* the client that pressed and at most one signal in return, so the clients
\* have sent at most two SIGNAL_VIDEO_ENABLE messages per press.
C35_BoundedVideoSignals == SignalsSent <= 2 * VideoClicks

\* A press whose signal reached the partner, and the partner answered with its
\* own signal after acquiring its camera: both requests have settled.
C35_Witness ==
  \E c \in Duo, d \in Duo :
    /\ c # d
    /\ videoAsked[c] = 1 /\ videoAsked[d] = 0
    /\ videoSent[c] = 1 /\ videoSent[d] = 1
    /\ videoPending[c] = 0 /\ videoPending[d] = 0

\* ============================================================ variant v12
\* src/unnamed/part_000: register the slot name, join its holder when it is taken.

V12_Langs == {"en", "fr"}

V12_targetRoomId(lang, currentSlot) ==
  "anyone-v12-" \o lang \o "-slot-" \o ToString(currentSlot)

V12_cleanup(w, c) ==
  LET w1 == [w EXCEPT !.matchIv[c] = FALSE, !.sessionIv[c] = FALSE]
      w2 == CloseCallRef(w1, w1.callRef[c])
      w3 == CloseConnRef(w2, w2.dataConnRef[c])
      w4 == DestroyPeer(StopHeldStream(w3, c), c, w3.peerRef[c])
  IN [w4 EXCEPT !.peerRef[c] = 0, !.callRef[c] = NoRef,
                !.dataConnRef[c] = NoRef, !.localStreamRef[c] = Null,
                !.appState[c] = "IDLE", !.elapsedTime[c] = 0,
                !.matchTimer[c] = MATCH_TIMEOUT,
                !.isVideoActive[c] = FALSE, !.toast[c] = -1]

\* handleCall(call): a call is turned away while callRef.current is open.
V12_handleCall(w, c, g, k, side) ==
  IF w.callRef[c] # NoRef /\ V5_callOpenHere(w, w.callRef[c])
    THEN CloseCallRef(w, <<g, k, side>>)
    ELSE [w EXCEPT !.callRef[c] = <<g, k, side>>]

\* setupDataConnection(conn): a connection is turned away while
\* dataConnRef.current is open.
V12_setupDataConnection(w, c, g, k, side) ==
  LET ref == w.dataConnRef[c] IN
  IF ref # NoRef /\ w.conns[ref[1]][ref[2]].st = "open"
    THEN CloseConnRef(w, <<g, k, side>>)
    ELSE [w EXCEPT !.dataConnRef[c] = <<g, k, side>>,
                   !.conns[g][k] = IF side = "g" THEN [@ EXCEPT !.gatt = TRUE]
                                   ELSE [@ EXCEPT !.hmode = "attached"]]

\* peer.destroy() of Peer i: an open connection or call of the Peer emits
\* 'close' at once, and the handler attached to it is cleanup.
V12_destroy(w, c, i) ==
  IF V5_closeHandlerRuns(w, c, i)
    THEN V12_cleanup(DestroyPeer(w, c, i), c)
    ELSE DestroyPeer(w, c, i)

\* startMatchingSequence(slotIndex), called from the chain r of client c: its
\* appState and selectedLang are those of the render of the click.  That
\* render is the Idle screen, whose matchTimer is MATCH_TIMEOUT_LIMIT, so the
\* test matchTimer <= 0 never holds.
V12_startMatchingSequence(w, c, r, slotIndex) ==
  LET run == w.runs[c][r]
      currentSlot == IF slotIndex > MAX_SLOTS THEN 1 ELSE slotIndex
      w1 == V12_destroy(w, c, w.peerRef[c])
      w2 == NewPeer(w1, c, V12_targetRoomId(run.lang, currentSlot))
  IN IF run.app = "CONNECTED" \/ run.lang = Null
       THEN [w EXCEPT !.runs[c][r].pc = "dead"]
       ELSE [w2 EXCEPT !.peerRef[c] = Len(w2.peers[c]),
                       !.runs[c][r] = [@ EXCEPT !.pc = "reg",
                                                !.slot = currentSlot,
                                                !.peer = Len(w2.peers[c]),
                                                !.conn = 0]]

\* handleStart(langCode), the language buttons of the Idle screen.
V12_handleStart(c, l, n) ==
  /\ appState[c] = "IDLE"
  /\ CanStart(W, c, n)
  /\ CanAlloc(W, c)
  /\ \E w1 \in {[W EXCEPT !.selectedLang[c] = l, !.appState[c] = "MATCHING",
                          !.matchTimer[c] = MATCH_TIMEOUT, !.matchIv[c] = TRUE,
                          !.runs[c] = Append(@, NewRun(W, c, "new"))]} :
       Commit(V12_startMatchingSequence(w1, c, Len(w1.runs[c]), 1))

\* One tick of the interval of handleStart.
V12_matchTick(c) ==
  /\ matchIv[c]
  /\ IF matchTimer[c] <= 1
       THEN Commit([W EXCEPT !.matchTimer[c] = 0, !.matchIv[c] = FALSE])
       ELSE Commit([W EXCEPT !.matchTimer[c] = @ - 1])

\* peer 'open': the client hosts the slot and waits for a call.
V12_hostOpen(c, r) ==
  /\ r \in 1..Len(runs[c])
  /\ runs[c][r].pc = "reg"
  /\ peers[c][runs[c][r].peer].st = "pending"
  /\ ~Registered(W, peers[c][runs[c][r].peer].name)
  /\ Commit([W EXCEPT !.peers[c][runs[c][r].peer].st = "open",
                      !.runs[c][r].pc = "hosting"])

\* peer 'error' unavailable-id: destroy the Peer and attemptToJoin, which
\* first awaits the microphone.
V12_hostError(c, r) ==
  /\ r \in 1..Len(runs[c])
  /\ runs[c][r].pc = "reg"
  /\ peers[c][runs[c][r].peer].st = "pending"
  /\ Registered(W, peers[c][runs[c][r].peer].name)
  /\ Commit([DestroyPeer(W, c, runs[c][r].peer) EXCEPT !.runs[c][r].pc = "jmic"])

\* getUserMedia resolves in attemptToJoin: create the caller Peer and arm
\* failTimer.
V12_joinMicGranted(c, r) ==
  /\ r \in 1..Len(runs[c])
  /\ runs[c][r].pc = "jmic"
  /\ CanAlloc(W, c)
  /\ \E w1 \in {NewPeer(HoldNewStream(W, c), c, Rand)} :
       Commit([w1 EXCEPT !.peerRef[c] = Len(w1.peers[c]),
                         !.runs[c][r] = [@ EXCEPT !.pc = "jopen",
                                                  !.peer = Len(w1.peers[c])]])

\* getUserMedia rejects in attemptToJoin: cleanup.
V12_joinMicDenied(c, r) ==
  /\ r \in 1..Len(runs[c])
  /\ runs[c][r].pc = "jmic"
  /\ Commit(V12_cleanup([W EXCEPT !.runs[c][r].pc = "done"], c))

\* caller 'open': call the slot name, then connect to it; failTimer stays
\* armed.  When nobody holds the name the broker answers with an error.
V12_callerOpen(c, r) ==
  /\ r \in 1..Len(runs[c])
  /\ runs[c][r].pc = "jopen"
  /\ peers[c][runs[c][r].peer].st = "pending"
  /\ LET run == runs[c][r]
         target == V12_targetRoomId(run.lang, run.slot)
         w1 == [W EXCEPT !.peers[c][run.peer].st = "open"]
         w2 == NewCall(w1, c, run.peer, target)
         w3 == V12_handleCall(w2, c, c, Len(w2.calls[c]), "g")
         w4 == NewConn(w3, c, run.peer, target)
         w5 == V12_setupDataConnection(w4, c, c, Len(w4.conns[c]), "g")
     IN Commit([w5 EXCEPT !.runs[c][r] =
                  [@ EXCEPT !.pc = IF Registered(w1, target) THEN "jwait" ELSE "jerr",
                            !.conn = Len(w4.conns[c])]])

\* caller 'error': clearTimeout(failTimer) and the next slot.
V12_callerError(c, r) ==
  /\ r \in 1..Len(runs[c])
  /\ runs[c][r].pc = "jerr"
  /\ PeerLive(W, c, runs[c][r].peer)
  /\ CanAlloc(W, c)
  /\ Commit(V12_startMatchingSequence(W, c, r, runs[c][r].slot + 1))

\* failTimer fires, SLOT_PROBE_TIMEOUT after attemptToJoin created the caller
\* Peer: unless the appState of its closure is CONNECTED, destroy the caller
\* Peer and go on to the next slot.
V12_failTimer(c, r) ==
  /\ r \in 1..Len(runs[c])
  /\ runs[c][r].pc \in {"jopen", "jwait", "jerr"}
  /\ CanAlloc(W, c)
  /\ IF runs[c][r].app # "CONNECTED"
       THEN Commit(V12_startMatchingSequence(
                     V12_destroy(W, c, runs[c][r].peer), c, r, runs[c][r].slot + 1))
       ELSE Commit([W EXCEPT !.runs[c][r].pc = "done"])

\* peer 'connection' at the Host.
V12_hostOnConnection(h, g, k) ==
  /\ k \in 1..Len(conns[g])
  /\ conns[g][k].st = "pend"
  /\ conns[g][k].hc = h
  /\ PeerLive(W, h, conns[g][k].hp)
  /\ Commit(V12_setupDataConnection([W EXCEPT !.conns[g][k].st = "open"], h, g, k, "h"))

\* peer 'call' at the Host: await the microphone.
V12_hostOnCall(h, g, k) ==
  /\ k \in 1..Len(calls[g])
  /\ calls[g][k].stage = "offer"
  /\ calls[g][k].hc = h
  /\ ~calls[g][k].closed
  /\ PeerLive(W, h, calls[g][k].hp)
  /\ Commit([W EXCEPT !.calls[g][k].stage = "hmic"])

\* getUserMedia resolves at the Host: answer, then handleCall.
V12_hostMicGranted(h, g, k) ==
  /\ k \in 1..Len(calls[g])
  /\ calls[g][k].hc = h
  /\ calls[g][k].stage = "hmic"
  /\ Commit(V12_handleCall(
       [HoldNewStream(W, h) EXCEPT
                 !.calls[g][k] = [@ EXCEPT !.stage = "answered",
                                           !.gStream = ~calls[g][k].closed,
                                           !.hStream = ~calls[g][k].closed]],
       h, g, k, "h"))

\* getUserMedia rejects at the Host: nothing catches it.
V12_hostMicDenied(h, g, k) ==
  /\ k \in 1..Len(calls[g])
  /\ calls[g][k].hc = h
  /\ calls[g][k].stage = "hmic"
  /\ Commit([W EXCEPT !.calls[g][k].stage = "denied"])

\* call 'stream' at either end (audio only): the appState its handler tests
\* is the one of the render of the click, never CONNECTED.
V12_onStream(c, g, k, side) ==
  /\ k \in 1..Len(calls[g])
  /\ \/ side = "g" /\ c = g /\ calls[g][k].gStream
     \/ side = "h" /\ calls[g][k].hc = c /\ calls[g][k].hStream
  /\ Commit([W EXCEPT !.calls[g][k].gStream = (@ /\ side # "g"),
                      !.calls[g][k].hStream = (@ /\ side # "h"),
                      !.appState[c] = "CONNECTED", !.sessionIv[c] = TRUE])

\* conn 'close' at either end: cleanup, when setupDataConnection kept it.
V12_connClose(c, g, k, side) ==
  /\ k \in 1..Len(conns[g])
  /\ \/ side = "g" /\ c = g /\ conns[g][k].gClose
     \/ side = "h" /\ conns[g][k].hc = c /\ conns[g][k].hClose
  /\ \E w1 \in {[W EXCEPT !.conns[g][k].gClose = (@ /\ side # "g"),
                          !.conns[g][k].hClose = (@ /\ side # "h")]} :
       IF (side = "g" /\ conns[g][k].gatt) \/ (side = "h" /\ conns[g][k].hmode = "attached")
         THEN Commit(V12_cleanup(w1, c)) ELSE Commit(w1)

\* call 'close' at either end: cleanup, when handleCall kept it.
V12_callClose(c, g, k, side) ==
  /\ k \in 1..Len(calls[g])
  /\ \/ side = "g" /\ c = g /\ calls[g][k].gClose
     \/ side = "h" /\ calls[g][k].hc = c /\ calls[g][k].hClose
  /\ \E w1 \in {[W EXCEPT !.calls[g][k].gClose = (@ /\ side # "g"),
                          !.calls[g][k].hClose = (@ /\ side # "h")]} :
       IF side = "g" \/ calls[g][k].stage = "answered"
         THEN Commit(V12_cleanup(w1, c)) ELSE Commit(w1)

\* The Cancel and hang-up buttons call cleanup.
V12_userCleanup(c) ==
  /\ appState[c] \in {"MATCHING", "CONNECTED"}
  /\ Commit(V12_cleanup(W, c))

\* Two clients; the Idle screen each starts from is the one after load
\* (selectedLang null) or the one an earlier cancelled run left.
InitV12 == InitOf(Duo)
NextV12 ==
  \/ \E c \in Duo :
       \/ \E l \in V12_Langs : V12_handleStart(c, l, MaxRuns)
       \/ V12_matchTick(c)
       \/ V12_userCleanup(c)
  \/ \E c \in Duo, r \in 1..MaxRuns :
       \/ V12_hostOpen(c, r)
       \/ V12_hostError(c, r)
       \/ V12_joinMicGranted(c, r)
       \/ V12_joinMicDenied(c, r)
       \/ V12_callerOpen(c, r)
       \/ V12_callerError(c, r)
       \/ V12_failTimer(c, r)
  \/ \E c \in Duo, g \in Duo, k \in Idx :
       \/ V12_hostOnConnection(c, g, k)
       \/ V12_hostOnCall(c, g, k)
       \/ V12_hostMicGranted(c, g, k)
       \/ V12_hostMicDenied(c, g, k)
       \/ \E side \in {"g", "h"} :
            \/ V12_onStream(c, g, k, side)
            \/ V12_connClose(c, g, k, side)
            \/ V12_callClose(c, g, k, side)
SpecV12 == InitV12 /\ [][NextV12]_vars

\* ============================================================ properties, connect timeout

\* C36: once the Guest is Connected, failTimer of its attempt neither destroys
\* the Guest's Peer nor starts another slot attempt: the step in which the
\* timer fires leaves the Guest Connected with the Peers it had.
C36_TimerSparesSession ==
  [][\A c \in Duo : \A r \in 1..MaxRuns :
       ( /\ appState[c] = "CONNECTED"
         /\ r <= Len(runs[c])
         /\ runs[c][r].pc = "jwait"
         /\ peerRef[c] = runs[c][r].peer
         /\ V12_failTimer(c, r) )
       => /\ appState'[c] = "CONNECTED"
          /\ peerRef'[c] = peerRef[c]
          /\ peers'[c] = peers[c]]_vars

\* ============================================================ properties, session interval

\* C37: at most one elapsed-time interval runs per client, and none runs in a
\* client that cleanup has put back on the Idle screen.
C37_OneSessionInterval ==
  \A c \in Clients :
    /\ (IF sessionIv[c] THEN 1 ELSE 0) + leakedIv[c] <= 1
    /\ appState[c] = "IDLE" => ~sessionIv[c] /\ leakedIv[c] = 0

\* ============================================================ properties, later sessions

\* C38: every session has a running elapsed-time interval, the first one of a
\* client and those after a cleanup alike: the interval of a client that is
\* Connected in a call with a partner runs.
C38_EverySessionTimed ==
  \A c \in Clients, p \in Clients : V27_InSessionWith(c, p) => sessionIv[c]

\* ============================================================ properties, language of a run

\* C39: the run a handleStart(langCode) starts makes a slot attempt, and the
\* slot name it registers is built from langCode, on a first run after load
\* and on a run that follows one with another language.
C39_RunUsesItsLanguage ==
  [][\A c \in Duo, l \in V12_Langs :
       V12_handleStart(c, l, MaxRuns)
       => /\ peerRef'[c] # 0
          /\ peers'[c][peerRef'[c]].name = V12_targetRoomId(l, 1)]_vars

====
